---- MODULE Spec2Model ----
(***************************************************************************)
(* Multi-source aggregation pipeline of the football-api repository:       *)
(* the unified scraper (concurrent fetch with a per-source deadline,       *)
(* consolidation, deduplication, validation), the deduplication and        *)
(* validation steps as functions of their input list, and the source       *)
(* clients' request loops.                                                 *)
(*                                                                         *)
(* Python strings are sequences of one-character strings, so that lower(), *)
(* strip(), slicing and the `in` substring test are computed, not assumed. *)
(* A dict field is a string, Null (the key is present with value None) or  *)
(* Absent (the key is missing).                                            *)
(***************************************************************************)
EXTENDS Integers, Sequences, FiniteSets, TLC

VARIABLES
    pc,               \* stage of the pipeline run
    now,              \* seconds since the run started
    deadline,         \* per source: when its wait_for expires
    call,             \* per source: how _safe_scraper_call ended
    results,          \* per source: the list _safe_scraper_call returned
    first_done,       \* the source whose call settled first
    all_matches,      \* consolidated raw records
    source_counts,    \* per source: number of records counted
    agg_outcome,      \* how get_all_live_matches_real ended
    unique_matches,   \* what get_all_live_matches_real returned
    quality_scores,   \* quality_score of each record validated, in order
    run_result,       \* what get_unified_live_matches_100_real returned
    validation_stats, \* the stats of validate_real_data
    val_outcome,      \* how validate_real_data ended
    real_matches,     \* what the /matches/live-real endpoint serves
    \* the deduplication step on its own
    step,             \* which call of the step comes next
    permuted,         \* a permutation of the raw list
    permuted_out,     \* _remove_duplicates on the permutation
    again_out,        \* _remove_duplicates called again on the same list
    live_out,         \* LiveScoresScraper._remove_duplicates on the list
    live_permuted_out, \* the same on the permutation
    \* one call of a source client's entry point
    cpc,              \* where the call is
    client,           \* the client called
    league,           \* which request of the fetch is being made
    attempt,          \* attempt of _make_request's retry loop
    has_token,        \* X-Auth-Token still among the session headers
    client_result,    \* the matches collected, by request
    failed_requests,  \* requests of this call that ended without data
    client_outcome,   \* how the entry point ended
    last_attempt,     \* the last request attempt: its response, the sleeps
                      \* around it and how _make_request went on
    waited,           \* seconds slept since the last request was sent
    \* one provider payload through a parser
    ppc,              \* where the parse is
    parser,           \* the parser called
    events,           \* the events of the payload
    parsed,           \* the matches the fetch has after parsing them
    \* one live fetch of a client that loops over leagues, pass by pass
    fpc,              \* where the fetch is
    fetcher,          \* the client fetching
    pass,             \* which pass of the loop comes next
    fetch_token,      \* X-Auth-Token still among the session headers
    fetch_elapsed,    \* seconds the fetch has taken so far, up to ClockCap
    fetch_matches,    \* passes that appended matches
    fetch_raises,     \* passes that ended in the loop's except clause
    \* the soccer task of get_multi_sport_live_real
    mpc,              \* where the call is
    outer_deadline,   \* when the wait_for around the aggregate expires
    soccer_call,      \* how the soccer task's _safe_scraper_call ended
    soccer,           \* sports_data['soccer']
    \* the live-score update runs and the live_matches table
    rows,             \* per external_id: the rows of live_matches
    rpc,              \* per run: where it is
    fetched,          \* per run: the match_ids scrape_live_scores returned
    connected,        \* per run: the supabase client was created
    idx,              \* per run: the match the loop is at
    existing,         \* per run: what the select returned for that match
    written,          \* per run: writes that succeeded
    updated_count,    \* per run: updated_count
    \* LiveScoresScheduler.run_scheduler and stop
    spc,              \* where run_scheduler is
    running,          \* self.running
    stop_called,      \* stop() has been called since run_scheduler was
    begun_after_stop, \* an update began after stop() had been called
    in_flight,        \* calls of update_live_scores that have not returned
    failed_update,    \* an update of this loop met a failure
    \* SchedulerManager: start, stop and the live scraping job
    is_running,       \* self.is_running
    sched_started,    \* the AsyncIOScheduler has been started
    scheduled,        \* the live scraping job has been added
    jpc,              \* where _safe_live_scraping is
    job_status,       \* jobs_status['live_matches_scraping']['status']
    live_count,       \* what _check_live_matches_count returned
    count_read,       \* whether the count could be read
    scrape,           \* how scrape_live_matches ended
    last_call         \* the last call of start or stop and what it found

fetchVars == <<now, deadline, call, results, first_done>>
pipeVars == <<pc, fetchVars, all_matches, source_counts, agg_outcome,
              unique_matches, quality_scores, run_result, validation_stats,
              val_outcome, real_matches>>
stepVars == <<step, permuted, permuted_out, again_out, live_out,
              live_permuted_out>>
clientVars == <<cpc, client, league, attempt, has_token, client_result,
                failed_requests, client_outcome, last_attempt, waited>>
parseVars == <<ppc, parser, events, parsed>>
loopVars == <<fpc, fetcher, pass, fetch_token, fetch_elapsed, fetch_matches,
              fetch_raises>>
multiVars == <<mpc, outer_deadline, soccer_call, soccer>>
storeVars == <<rows, rpc, fetched, connected, idx, existing, written,
               updated_count>>
earlyVars == <<pipeVars, stepVars, clientVars, parseVars, loopVars>>
schedVars == <<spc, running, stop_called, begun_after_stop, in_flight,
               failed_update>>
managerVars == <<is_running, sched_started, scheduled, jpc, job_status,
                 live_count, count_read, scrape, last_call>>
besideMulti == <<storeVars, schedVars, managerVars>>
besideStore == <<multiVars, schedVars, managerVars>>
besideManager == <<earlyVars, multiVars, storeVars, schedVars>>
lateVars == <<multiVars, storeVars, schedVars, managerVars>>
sideVars == <<stepVars, clientVars, parseVars, loopVars, lateVars>>
vars == <<pipeVars, sideVars>>

-----------------------------------------------------------------------------
(* Bounds *)

\* most records one source returns in a pipeline run
MaxPerSource == 1

-----------------------------------------------------------------------------
(* Python strings *)

Null == <<"NULL">>
Absent == <<"ABSENT">>

IsStr(v) == v # Null /\ v # Absent

UpperAlpha == <<"A","B","C","D","E","F","G","H","I","J","K","L","M",
                "N","O","P","Q","R","S","T","U","V","W","X","Y","Z">>
LowerAlpha == <<"a","b","c","d","e","f","g","h","i","j","k","l","m",
                "n","o","p","q","r","s","t","u","v","w","x","y","z">>

Whitespace == {" ", "\t", "\n"}

\* the lower-case letter of every upper-case one
LowerOf ==
    [c \in {UpperAlpha[i] : i \in 1..Len(UpperAlpha)} |->
        LowerAlpha[CHOOSE i \in 1..Len(UpperAlpha) : UpperAlpha[i] = c]]

LowerChar(c) == IF c \in DOMAIN LowerOf THEN LowerOf[c] ELSE c

\* str.lower()
Lower(s) == [i \in 1..Len(s) |-> LowerChar(s[i])]

SetMin(S) == CHOOSE x \in S : \A y \in S : x <= y
SetMax(S) == CHOOSE x \in S : \A y \in S : x >= y

\* str.strip(): leading and trailing whitespace only
Strip(s) ==
    LET solid == {i \in 1..Len(s) : s[i] \notin Whitespace}
    IN  IF solid = {} THEN <<>> ELSE SubSeq(s, SetMin(solid), SetMax(solid))

\* t in s (substring test)
Contains(s, t) ==
    \E i \in 1..(Len(s) - Len(t) + 1) : SubSeq(s, i, i + Len(t) - 1) = t

\* s[:n]
Prefix(s, n) == SubSeq(s, 1, IF Len(s) < n THEN Len(s) ELSE n)

\* dict.get(field, default): the default only when the key is missing
Get(match, field, default) ==
    IF match[field] = Absent THEN default ELSE match[field]

\* truth value of dict.get(field): None, a missing key and '' are falsy
Truthy(v) == IsStr(v) /\ v # <<>>

\* the characters in code-point order
CodePoints ==
    <<"\t", "\n", " ", "-", "0", "1", "2", "3", "4", "5", "6", "7", "8", "9", ":">>
    \o UpperAlpha \o <<"_">> \o LowerAlpha

Ord(c) == CHOOSE i \in 1..Len(CodePoints) : CodePoints[i] = c

RECURSIVE StrLeq(_, _)
\* a <= b as Python compares strings
StrLeq(a, b) ==
    IF a = <<>> THEN TRUE
    ELSE IF b = <<>> THEN FALSE
    ELSE IF Head(a) = Head(b) THEN StrLeq(Tail(a), Tail(b))
    ELSE Ord(Head(a)) < Ord(Head(b))

\* sorted([a, b])
Sorted2(a, b) == IF StrLeq(a, b) THEN <<a, b>> ELSE <<b, a>>

-----------------------------------------------------------------------------
(* Raw records *)

Flamengo  == <<"F","l","a","m","e","n","g","o">>
flamengo  == <<"f","l","a","m","e","n","g","o">>
Palmeiras == <<"P","a","l","m","e","i","r","a","s">>
palmeiras == <<"p","a","l","m","e","i","r","a","s">>
PALMEIRAS == <<"P","A","L","M","E","I","R","A","S">>
flamengoPadded == <<" ">> \o flamengo \o <<" ">>
TestFC    == <<"T","e","s","t"," ","F","C">>
RealClub  == <<"R","e","a","l"," ","C","l","u","b">>

May01At20 == <<"2","0","2","4","-","0","5","-","0","1","T","2","0">>
May01At21 == <<"2","0","2","4","-","0","5","-","0","1","T","2","1">>
May02At20 == <<"2","0","2","4","-","0","5","-","0","2","T","2","0">>

espn_real          == <<"e","s","p","n","_","r","e","a","l">>
football_data_real == <<"f","o","o","t","b","a","l","l","_","d","a","t","a",
                        "_","r","e","a","l">>
api_football_real  == <<"a","p","i","_","f","o","o","t","b","a","l","l",
                        "_","r","e","a","l">>

hundred_percent_real ==
    <<"1","0","0","_","p","e","r","c","e","n","t","_","r","e","a","l">>

\* a JSON value where a parser reads a score: a number, a string, null, or
\* no key at all; Raised is the exception an expression ends with instead
JInt(n) == [t |-> "int", n |-> n, s |-> <<>>]
JStr(s) == [t |-> "str", n |-> 0, s |-> s]
JNull == [t |-> "null", n |-> 0, s |-> <<>>]
JAbsent == [t |-> "absent", n |-> 0, s |-> <<>>]
Raised(exc) == [t |-> "raise", n |-> 0, s |-> <<exc>>]

\* match_data.update(stats): the statistics API-Football adds to its record
WithStatistics(match, shots) == [match EXCEPT !.home_shots = JInt(shots)]

\* a match dict as a source client builds it; home_shots is there only
\* when the client has fetched the statistics of the match
Match(home, away, start, hs, as, scraped, src) ==
    [home_team |-> home, away_team |-> away, start_time |-> start,
     home_score |-> hs, away_score |-> as, scraped_at |-> scraped,
     source |-> src, data_quality |-> hundred_percent_real,
     home_shots |-> JAbsent,
     is_simulation |-> Absent, data_guarantee |-> Absent,
     unified_key |-> Absent, is_deduplicated |-> FALSE,
     validation_score |-> 0, is_validated_real |-> FALSE]

-----------------------------------------------------------------------------
(* Deduplication: UnifiedRealScraper._remove_duplicates *)

\* the characters of start_time the key keeps
DateLen == 10

\* a null start_time reads as an empty date
KeyableWithoutDate(match) ==
    /\ Get(match, "home_team", <<>>) # Null
    /\ Get(match, "away_team", <<>>) # Null

\* .lower() on None and None[:10] raise
Keyable(match) ==
    /\ Get(match, "home_team", <<>>) # Null
    /\ Get(match, "away_team", <<>>) # Null
    /\ Get(match, "start_time", <<>>) # Null

\* the key without the date
UnifiedKeyNoDate(match) ==
    LET home == Strip(Lower(Get(match, "home_team", <<>>)))
        away == Strip(Lower(Get(match, "away_team", <<>>)))
    IN  home \o <<"_">> \o away

\* the key with the two names sorted
UnifiedKeySorted(match) ==
    LET home == Strip(Lower(Get(match, "home_team", <<>>)))
        away == Strip(Lower(Get(match, "away_team", <<>>)))
        start_time == Get(match, "start_time", <<>>)
        names == Sorted2(home, away)
    IN  names[1] \o <<"_">> \o names[2] \o <<"_">> \o Prefix(start_time, DateLen)

UnifiedKey(match) ==
    LET home == Strip(Lower(Get(match, "home_team", <<>>)))
        away == Strip(Lower(Get(match, "away_team", <<>>)))
        start_time == Get(match, "start_time", <<>>)
    IN  home \o <<"_">> \o away \o <<"_">> \o Prefix(start_time, DateLen)

\* the kept record, annotated in place
Deduplicated(match, key) ==
    [match EXCEPT !.unified_key = key, !.is_deduplicated = TRUE]

\* every key counts as new
IsNewAlways(key, seen) == TRUE

\* if key not in seen
IsNew(key, seen) == key \notin seen

RECURSIVE RemoveFrom(_, _, _, _, _)
RemoveFrom(matches, i, seen, unique, touched) ==
    IF i > Len(matches)
    THEN [outcome |-> "returned", unique_matches |-> unique, matches |-> touched]
    ELSE IF ~Keyable(matches[i])
    THEN [outcome |-> "raised", unique_matches |-> <<>>, matches |-> touched]
    ELSE LET key == UnifiedKey(matches[i])
         IN  IF IsNew(key, seen)
             THEN RemoveFrom(matches, i + 1, seen \cup {key},
                             Append(unique, Deduplicated(matches[i], key)),
                             [touched EXCEPT ![i] = Deduplicated(matches[i], key)])
             ELSE RemoveFrom(matches, i + 1, seen, unique, touched)

\* outcome: returned or raised; unique_matches: the list returned;
\* matches: the input list after the call (kept records are annotated)
RemoveDuplicates(matches) == RemoveFrom(matches, 1, {}, <<>>, matches)

-----------------------------------------------------------------------------
(* Deduplication: LiveScoresScraper._remove_duplicates *)

\* match['home_team'] raises on a missing key, .lower() on None
LiveKeyable(match) == IsStr(match.home_team) /\ IsStr(match.away_team)

LiveKey(match) ==
    Sorted2(Strip(Lower(match.home_team)), Strip(Lower(match.away_team)))

RECURSIVE LiveRemoveFrom(_, _, _, _)
LiveRemoveFrom(matches, i, seen, unique) ==
    IF i > Len(matches)
    THEN [outcome |-> "returned", unique_matches |-> unique]
    ELSE IF ~LiveKeyable(matches[i])
    THEN [outcome |-> "raised", unique_matches |-> <<>>]
    ELSE LET key == LiveKey(matches[i])
         IN  IF key \notin seen
             THEN LiveRemoveFrom(matches, i + 1, seen \cup {key},
                                 Append(unique, matches[i]))
             ELSE LiveRemoveFrom(matches, i + 1, seen, unique)

LiveRemoveDuplicates(matches) == LiveRemoveFrom(matches, 1, {}, <<>>)

-----------------------------------------------------------------------------
(* Validation: UnifiedRealScraper.validate_real_data and _is_simulation *)

suspicious_indicators ==
    << <<"t","e","s","t">>, <<"f","a","k","e">>, <<"d","e","m","o">>,
       <<"e","x","a","m","p","l","e">>, <<"s","a","m","p","l","e">>,
       <<"m","o","c","k">>, <<"d","u","m","m","y">> >>

source_indicators ==
    { <<"s","i","m","u","l","a","t","e">>, <<"f","a","k","e">> }

\* the indicators sought in the name as written
NameSuspiciousAsWritten(name) ==
    \E k \in 1..Len(suspicious_indicators) :
        Contains(name, suspicious_indicators[k])

\* one of the indicators is a substring of the lower-cased name
NameSuspicious(name) ==
    LET lowered == Lower(name)
    IN  \E k \in 1..Len(suspicious_indicators) :
            Contains(lowered, suspicious_indicators[k])

\* .lower() on None raises; the source is read only when no name matched
SimulationRaises(match) ==
    LET home_team == Get(match, "home_team", <<>>)
        away_team == Get(match, "away_team", <<>>)
    IN  \/ home_team = Null
        \/ away_team = Null
        \/ /\ ~NameSuspicious(home_team)
           /\ ~NameSuspicious(away_team)
           /\ Get(match, "source", <<>>) = Null

IsSimulation(match) ==
    LET home_team == Get(match, "home_team", <<>>)
        away_team == Get(match, "away_team", <<>>)
        source == Get(match, "source", <<>>)
    IN  \/ NameSuspicious(home_team)
        \/ NameSuspicious(away_team)
        \/ \E ind \in source_indicators : Contains(Lower(source), ind)

HasTeams(match) == Truthy(match.home_team) /\ Truthy(match.away_team)
HasTimestamp(match) == Truthy(match.scraped_at)
HasSource(match) == Truthy(match.source)

Point(passed) == IF passed THEN 1 ELSE 0

QualityScore(match) ==
    Point(HasTeams(match)) + Point(HasTimestamp(match))
    + Point(HasSource(match)) + Point(~IsSimulation(match))

\* the score from which a record is classified real
AcceptThreshold == 4
\* the score from which a rejected record is counted suspicious
SuspiciousThreshold == 2

\* accepted from the score of a suspicious record up
IsAcceptedFromSuspicious(quality_score) ==
    quality_score >= SuspiciousThreshold

IsAccepted(quality_score) == quality_score >= AcceptThreshold

\* elif quality_score >= 2
IsSuspicious(quality_score) == quality_score >= SuspiciousThreshold

Validated(match) ==
    [match EXCEPT !.validation_score = QualityScore(match),
                  !.is_validated_real = TRUE]

RECURSIVE ValidateFrom(_, _, _, _, _)
ValidateFrom(matches, i, validated, scores, stats) ==
    IF i > Len(matches)
    THEN [outcome |-> "returned", validated |-> validated,
          scores |-> scores, stats |-> stats]
    ELSE IF SimulationRaises(matches[i])
    THEN [outcome |-> "raised", validated |-> <<>>,
          scores |-> scores, stats |-> stats]
    ELSE LET quality_score == QualityScore(matches[i])
         IN  IF IsAccepted(quality_score)
             THEN ValidateFrom(matches, i + 1,
                      Append(validated, Validated(matches[i])),
                      Append(scores, quality_score),
                      [stats EXCEPT !.real = @ + 1])
             ELSE IF IsSuspicious(quality_score)
             THEN ValidateFrom(matches, i + 1, validated,
                      Append(scores, quality_score),
                      [stats EXCEPT !.suspicious = @ + 1])
             ELSE ValidateFrom(matches, i + 1, validated,
                      Append(scores, quality_score),
                      [stats EXCEPT !.invalid = @ + 1])

NoStats == [total |-> 0, real |-> 0, suspicious |-> 0, invalid |-> 0]

\* outcome: returned or raised; validated: the accepted records;
\* scores: the quality_score computed for each record, in input order
ValidateRealData(matches) ==
    ValidateFrom(matches, 1, <<>>, <<>>,
                 [NoStats EXCEPT !.total = Len(matches)])

-----------------------------------------------------------------------------
(* The aggregate call and the pipeline run *)

\* the order of the tasks handed to gather, and of source_name
Sources == <<"ESPN", "Football-Data", "API-Football", "LiveScore">>
SourceSet == {Sources[i] : i \in 1..Len(Sources)}

\* wait_for(scraper_func(), timeout=15.0)
TIMEOUT == 15

SeqsUpTo(S, n) == UNION {[1..k -> S] : k \in 0..n}

\* the records a source may report in a run: the derby as the source
\* spells and dates it, the same with a null date, a placeholder fixture
Pool(s) ==
    CASE s = "ESPN" ->
           { Match(Flamengo, Palmeiras, May01At20, 1, 0, May01At20, espn_real),
             Match(Flamengo, Palmeiras, Null, 1, 0, May01At20, espn_real),
             Match(TestFC, RealClub, May01At20, 0, 0, May01At20, espn_real) }
      [] s = "Football-Data" ->
           { Match(flamengo, palmeiras, May01At21, 1, 1, May01At21,
                   football_data_real),
             Match(flamengo, palmeiras, Null, 1, 1, May01At21,
                   football_data_real),
             Match(TestFC, RealClub, May01At21, 0, 0, May01At21,
                   football_data_real) }
      [] s = "API-Football" ->
           { Match(Flamengo, Palmeiras, May02At20, 2, 1, May02At20,
                   api_football_real),
             Match(Flamengo, Palmeiras, Null, 2, 1, May02At20,
                   api_football_real),
             Match(TestFC, RealClub, May02At20, 0, 0, May02At20,
                   api_football_real) }
      [] OTHER -> {}

\* the lists a source's scraper function may return
Feed(s) == SeqsUpTo(Pool(s), MaxPerSource)

Settled(s) == call[s] \in {"completed", "invalid_type", "error", "timeout"}

PipeInit ==
    /\ pc = "Idle"
    /\ now = 0
    /\ deadline = [s \in SourceSet |-> 0]
    /\ call = [s \in SourceSet |-> "idle"]
    /\ results = [s \in SourceSet |-> <<>>]
    /\ first_done = "none"
    /\ all_matches = <<>>
    /\ source_counts = <<>>
    /\ agg_outcome = "none"
    /\ unique_matches = <<>>
    /\ quality_scores = <<>>
    /\ run_result = <<>>
    /\ validation_stats = NoStats
    /\ val_outcome = "none"
    /\ real_matches = <<>>

\* gather starts every _safe_scraper_call; each arms its own wait_for
StartRun ==
    /\ pc = "Idle"
    /\ pc' = "Fetching"
    /\ deadline' = [s \in SourceSet |-> now + TIMEOUT]
    /\ call' = [s \in SourceSet |-> "running"]
    /\ UNCHANGED <<now, results, first_done, all_matches, source_counts,
                   agg_outcome, unique_matches, quality_scores, run_result,
                   validation_stats, val_outcome,
                   real_matches, sideVars>>

Settle(s, how, result) ==
    /\ call' = [call EXCEPT ![s] = how]
    /\ results' = [results EXCEPT ![s] = result]
    /\ first_done' = IF first_done = "none" THEN s ELSE first_done
    /\ UNCHANGED <<pc, now, deadline, all_matches, source_counts,
                   agg_outcome, unique_matches, quality_scores, run_result,
                   validation_stats, val_outcome,
                   real_matches, sideVars>>

\* the scraper function returns a list before the deadline
ScraperReturns(s) ==
    /\ pc = "Fetching" /\ call[s] = "running" /\ now < deadline[s]
    /\ \E result \in Feed(s) : Settle(s, "completed", result)

\* the scraper function returns something that is not a list
ScraperReturnsNonList(s) ==
    /\ pc = "Fetching" /\ call[s] = "running" /\ now < deadline[s]
    /\ Settle(s, "invalid_type", <<>>)

\* the scraper function raises
ScraperRaises(s) ==
    /\ pc = "Fetching" /\ call[s] = "running" /\ now < deadline[s]
    /\ Settle(s, "error", <<>>)

\* the deadline expires: wait_for cancels the call
ScraperTimesOut(s) ==
    /\ pc = "Fetching" /\ call[s] = "running" /\ now >= deadline[s]
    /\ Settle(s, "timeout", <<>>)

\* the earliest deadline among the calls still running
NextDeadline ==
    SetMin({deadline[s] : s \in {r \in SourceSet : call[r] = "running"}})

\* time passes until the next wait_for expires; the calls that answer
\* before it do so before this step
Tick ==
    /\ pc = "Fetching"
    /\ \E s \in SourceSet : call[s] = "running"
    /\ \A s \in SourceSet : call[s] = "running" => now < deadline[s]
    /\ now' = NextDeadline
    /\ UNCHANGED <<pc, deadline, call, results, first_done, all_matches,
                   source_counts, agg_outcome, unique_matches, quality_scores,
                   run_result, validation_stats, val_outcome,
                   real_matches, sideVars>>

RECURSIVE ExtendLatestFirst(_, _)
\* each result is put in front of the ones consolidated before it
ExtendLatestFirst(res, n) ==
    IF n = 0 THEN <<>> ELSE res[Sources[n]] \o ExtendLatestFirst(res, n - 1)

RECURSIVE Extend(_, _)
\* all_matches after the first n results have been consolidated
Extend(res, n) ==
    IF n = 0 THEN <<>> ELSE Extend(res, n - 1) \o res[Sources[n]]

\* gather has returned: the results are consolidated in task order
\* only a source that contributed records gets an entry
SourceCountsOfContributors(res) ==
    [s \in {t \in SourceSet : Len(res[t]) > 0} |-> Len(res[s])]

\* source_counts[source_name] = len(matches) for a list; every task returns
\* a list, _safe_scraper_call turning a failure or a timeout into []
SourceCounts(res) == [s \in SourceSet |-> Len(res[s])]

\* consolidation starts at the first result
AnySettled == \E s \in SourceSet : Settled(s)

\* results = await asyncio.gather(*tasks, return_exceptions=True): the
\* coroutine resumes when every task has a result
AllSettled == \A s \in SourceSet : Settled(s)

Consolidate ==
    /\ pc = "Fetching"
    /\ AllSettled
    /\ pc' = "Merging"
    /\ all_matches' = Extend(results, Len(Sources))
    /\ source_counts' = SourceCounts(results)
    /\ UNCHANGED <<fetchVars, agg_outcome, unique_matches, quality_scores,
                   run_result, validation_stats, val_outcome,
                   real_matches, sideVars>>

\* _remove_duplicates; when it raises, the run's handler returns []
Merge ==
    /\ pc = "Merging"
    /\ LET done == RemoveDuplicates(all_matches)
       IN  /\ agg_outcome' = done.outcome
           /\ unique_matches' = done.unique_matches
           /\ all_matches' = done.matches
           /\ pc' = IF done.outcome = "raised" THEN "Done" ELSE "Validating"
    /\ UNCHANGED <<fetchVars, source_counts, quality_scores, run_result,
                   validation_stats, val_outcome,
                   real_matches, sideVars>>

\* what the run adds to each validated record
Guaranteed(match) == [match EXCEPT !.data_guarantee = hundred_percent_real]

\* validate_real_data, then the metadata of the accepted records
Validate ==
    /\ pc = "Validating"
    /\ LET done == ValidateRealData(unique_matches)
       IN  /\ run_result' = [i \in 1..Len(done.validated) |->
                                Guaranteed(done.validated[i])]
           /\ quality_scores' = done.scores
           /\ validation_stats' = done.stats
           /\ val_outcome' = done.outcome
    /\ pc' = "Done"
    /\ UNCHANGED <<fetchVars, all_matches, source_counts, agg_outcome,
                   unique_matches, real_matches, sideVars>>

\* the sources the endpoint refuses, compared as written
refused_sources ==
    { <<"m","o","c","k">>, <<"f","a","k","e">>, <<"t","e","s","t">> }

\* the endpoint's extra check of a record
IsServed(match) ==
    /\ match.data_quality = hundred_percent_real
    /\ Get(match, "is_simulation", FALSE) = FALSE
    /\ match.source \notin refused_sources

RECURSIVE Served(_)
Served(matches) ==
    IF matches = <<>> THEN <<>>
    ELSE IF IsServed(Head(matches))
    THEN <<Head(matches)>> \o Served(Tail(matches))
    ELSE Served(Tail(matches))

\* GET /matches/live-real: the run's result, filtered once more
LiveRealEndpoint ==
    /\ pc = "Done"
    /\ real_matches' = Served(run_result)
    /\ pc' = "Served"
    /\ UNCHANGED <<fetchVars, all_matches, source_counts, agg_outcome,
                   unique_matches, quality_scores, run_result,
                   validation_stats, val_outcome, sideVars>>

\* the next run starts from nothing
NewRun ==
    /\ pc = "Served"
    /\ pc' = "Idle"
    /\ now' = 0
    /\ deadline' = [s \in SourceSet |-> 0]
    /\ call' = [s \in SourceSet |-> "idle"]
    /\ results' = [s \in SourceSet |-> <<>>]
    /\ first_done' = "none"
    /\ all_matches' = <<>>
    /\ source_counts' = <<>>
    /\ agg_outcome' = "none"
    /\ unique_matches' = <<>>
    /\ quality_scores' = <<>>
    /\ run_result' = <<>>
    /\ validation_stats' = NoStats
    /\ val_outcome' = "none"
    /\ real_matches' = <<>>
    /\ UNCHANGED sideVars

PipeNext ==
    \/ StartRun
    \/ \E s \in SourceSet : ScraperReturns(s)
    \/ \E s \in SourceSet : ScraperReturnsNonList(s)
    \/ \E s \in SourceSet : ScraperRaises(s)
    \/ \E s \in SourceSet : ScraperTimesOut(s)
    \/ Tick
    \/ Consolidate
    \/ Merge
    \/ Validate
    \/ LiveRealEndpoint
    \/ NewRun

\* a call not made
NoCall == [outcome |-> "none", unique_matches |-> <<>>]

\* the deduplication step is not called on its own
StepIdle ==
    /\ step = "idle"
    /\ permuted = <<>>
    /\ permuted_out = NoCall
    /\ again_out = NoCall
    /\ live_out = NoCall
    /\ live_permuted_out = NoCall

\* no request has been attempted
NoAttempt ==
    [n |-> 0, resp |-> "none", advertised |-> 0, token |-> FALSE,
     delay |-> 0, retry_after |-> 0, backoff |-> 0, made |-> "nothing",
     first |-> FALSE, gap |-> 0, after_path |-> "none", after_wait |-> 0]

\* no client entry point is being called
ClientIdle ==
    /\ last_attempt = NoAttempt
    /\ waited = 0
    /\ cpc = "Idle"
    /\ client = "none"
    /\ league = 0
    /\ attempt = 0
    /\ has_token = FALSE
    /\ client_result = <<>>
    /\ failed_requests = 0
    /\ client_outcome = "none"

\* no payload is being parsed
ParseIdle ==
    /\ ppc = "Idle"
    /\ parser = "none"
    /\ events = <<>>
    /\ parsed = <<>>

\* no fetch is being timed
LoopIdle ==
    /\ fpc = "Idle"
    /\ fetcher = "none"
    /\ pass = 0
    /\ fetch_token = FALSE
    /\ fetch_elapsed = 0
    /\ fetch_matches = 0
    /\ fetch_raises = 0

\* get_multi_sport_live_real has not been called
MultiIdle ==
    /\ mpc = "Idle"
    /\ outer_deadline = 0
    /\ soccer_call = "none"
    /\ soccer = <<>>

\* the two places that run a live-score update
Runs == {"scheduler", "endpoint"}

\* external ids the scraper reports
Ids == {"espn_1", "ss_2"}

\* the table is empty and no update is running
StoreIdle ==
    /\ rows = [id \in Ids |-> 0]
    /\ rpc = [r \in Runs |-> "Idle"]
    /\ fetched = [r \in Runs |-> <<>>]
    /\ connected = [r \in Runs |-> FALSE]
    /\ idx = [r \in Runs |-> 0]
    /\ existing = [r \in Runs |-> FALSE]
    /\ written = [r \in Runs |-> 0]
    /\ updated_count = [r \in Runs |-> 0]

\* LiveScoresScheduler(): running is False and nothing runs
SchedIdle ==
    /\ spc = "Created"
    /\ running = FALSE
    /\ stop_called = FALSE
    /\ begun_after_stop = FALSE
    /\ in_flight = 0
    /\ failed_update = FALSE

\* neither start nor stop has been called
NoCallYet ==
    [op |-> "none", found_running |-> FALSE,
     before |-> <<FALSE, FALSE, FALSE>>, after |-> <<FALSE, FALSE, FALSE>>]

\* SchedulerManager(): is_running is False and jobs_status is empty
ManagerIdle ==
    /\ is_running = FALSE
    /\ sched_started = FALSE
    /\ scheduled = FALSE
    /\ jpc = "Idle"
    /\ job_status = "none"
    /\ live_count = 0
    /\ count_read = "none"
    /\ scrape = "none"
    /\ last_call = NoCallYet

\* nothing of the later sections is running
LateIdle == MultiIdle /\ StoreIdle /\ SchedIdle /\ ManagerIdle

Init ==
    PipeInit /\ StepIdle /\ ClientIdle /\ ParseIdle /\ LoopIdle /\ LateIdle
Next == PipeNext
Spec == Init /\ [][Next]_vars

-----------------------------------------------------------------------------
(* The deduplication step on its own: any list, a permutation of it *)

\* longest list handed to the step
MaxMerge == 3

\* the derby; the same with other case, padding, kick-off hour and score;
\* home and away swapped; another day; a null date; no home_team key
MergePool ==
    { Match(Flamengo, Palmeiras, May01At20, 1, 0, May01At20, espn_real),
      Match(flamengoPadded, PALMEIRAS, May01At21, 1, 1, May01At21,
            football_data_real),
      Match(Palmeiras, Flamengo, May01At20, 0, 1, May01At20,
            api_football_real),
      Match(Flamengo, Palmeiras, May02At20, 2, 1, May02At20, espn_real),
      Match(Flamengo, Palmeiras, Null, 1, 0, May01At20, espn_real),
      Match(Absent, Palmeiras, May01At20, 3, 0, May01At20, espn_real),
      WithStatistics(Match(Flamengo, Palmeiras, May01At21, 1, 1, May01At21,
                           api_football_real), 7) }

Reorderings(list) ==
    LET n == Len(list)
        orders == {f \in [1..n -> 1..n] : \A i, j \in 1..n : f[i] = f[j] => i = j}
    IN  {[i \in 1..n |-> list[f[i]]] : f \in orders}


MergeInit ==
    /\ ParseIdle
    /\ LoopIdle /\ LateIdle
    /\ pc = "Merging"
    /\ now = 0
    /\ deadline = [s \in SourceSet |-> 0]
    /\ call = [s \in SourceSet |-> "idle"]
    /\ results = [s \in SourceSet |-> <<>>]
    /\ first_done = "none"
    /\ all_matches \in SeqsUpTo(MergePool, MaxMerge)
    /\ source_counts = <<>>
    /\ agg_outcome = "none"
    /\ unique_matches = <<>>
    /\ quality_scores = <<>>
    /\ run_result = <<>>
    /\ validation_stats = NoStats
    /\ val_outcome = "none"
    /\ real_matches = <<>>
    /\ step = "again"
    /\ permuted \in Reorderings(all_matches)
    /\ permuted_out = NoCall
    /\ again_out = NoCall
    /\ live_out = NoCall
    /\ live_permuted_out = NoCall
    /\ ClientIdle

\* the step is called a second time on the list it was called on
MergeAgain ==
    /\ pc # "Merging" /\ step = "again"
    /\ LET done == RemoveDuplicates(all_matches)
       IN  /\ again_out' = [outcome |-> done.outcome,
                            unique_matches |-> done.unique_matches]
           /\ all_matches' = done.matches
    /\ step' = "permuted"
    /\ UNCHANGED <<pc, fetchVars, source_counts, agg_outcome, unique_matches,
                   quality_scores, run_result, validation_stats, val_outcome,
                   real_matches, permuted,
                   permuted_out, live_out, live_permuted_out, clientVars, parseVars, loopVars, lateVars>>

\* the step is called on a permutation of the raw list
MergePermuted ==
    /\ step = "permuted"
    /\ LET done == RemoveDuplicates(permuted)
       IN  /\ permuted_out' = [outcome |-> done.outcome,
                               unique_matches |-> done.unique_matches]
           /\ permuted' = done.matches
    /\ step' = "live"
    /\ UNCHANGED <<pipeVars, again_out, live_out, live_permuted_out,
                   clientVars, parseVars, loopVars, lateVars>>

\* the live-scores step on the same records
LiveMerge ==
    /\ step = "live"
    /\ live_out' = LiveRemoveDuplicates(all_matches)
    /\ step' = "live_permuted"
    /\ UNCHANGED <<pipeVars, permuted, permuted_out, again_out,
                   live_permuted_out, clientVars, parseVars, loopVars, lateVars>>

\* the live-scores step on the permutation
LiveMergePermuted ==
    /\ step = "live_permuted"
    /\ live_permuted_out' = LiveRemoveDuplicates(permuted)
    /\ step' = "end"
    /\ UNCHANGED <<pipeVars, permuted, permuted_out, again_out, live_out,
                   clientVars, parseVars, loopVars, lateVars>>

MergeNext ==
    \/ Merge
    \/ MergeAgain
    \/ MergePermuted
    \/ LiveMerge
    \/ LiveMergePermuted

SpecMerge == MergeInit /\ [][MergeNext]_vars

-----------------------------------------------------------------------------
(* Deduplication, validation and the endpoint on any consolidated list *)

\* longest consolidated list
MaxValidate == 2

DemoUnited == <<"d","e","m","o"," ","U","n","i","t","e","d">>
FC         == <<"F","C">>
FAKE_feed  == <<"F","A","K","E","_","f","e","e","d">>
simulated  == <<"s","i","m","u","l","a","t","e","d">>
mock       == <<"m","o","c","k">>

\* the derby as a client reports it
Derby == Match(Flamengo, Palmeiras, May01At20, 1, 0, May01At20, espn_real)

\* records passing all checks, failing each check alone, failing several,
\* and one on which _is_simulation raises
ValidatePool ==
    { Derby,
      [Derby EXCEPT !.home_team = FC],
      [Derby EXCEPT !.home_team = TestFC, !.away_team = RealClub],
      [Derby EXCEPT !.away_team = DemoUnited],
      [Derby EXCEPT !.source = FAKE_feed],
      [Derby EXCEPT !.source = simulated],
      [Derby EXCEPT !.source = mock],
      [Derby EXCEPT !.data_quality = Absent],
      [Derby EXCEPT !.scraped_at = Absent],
      [Derby EXCEPT !.source = Absent],
      [Derby EXCEPT !.home_team = <<>>],
      [Derby EXCEPT !.home_team = TestFC, !.away_team = RealClub,
                    !.scraped_at = Absent, !.source = Absent],
      [Derby EXCEPT !.home_team = Absent, !.scraped_at = Absent,
                    !.source = Absent],
      [Derby EXCEPT !.home_team = <<>>, !.away_team = TestFC,
                    !.scraped_at = Absent, !.source = Absent],
      [Derby EXCEPT !.source = Null] }

ValidateInit ==
    /\ pc = "Merging"
    /\ now = 0
    /\ deadline = [s \in SourceSet |-> 0]
    /\ call = [s \in SourceSet |-> "idle"]
    /\ results = [s \in SourceSet |-> <<>>]
    /\ first_done = "none"
    /\ all_matches \in SeqsUpTo(ValidatePool, MaxValidate)
    /\ source_counts = <<>>
    /\ agg_outcome = "none"
    /\ unique_matches = <<>>
    /\ quality_scores = <<>>
    /\ run_result = <<>>
    /\ validation_stats = NoStats
    /\ val_outcome = "none"
    /\ real_matches = <<>>
    /\ StepIdle
    /\ ClientIdle
    /\ ParseIdle
    /\ LoopIdle /\ LateIdle

ValidateNext ==
    \/ Merge
    \/ Validate
    \/ LiveRealEndpoint

SpecValidate == ValidateInit /\ [][ValidateNext]_vars

-----------------------------------------------------------------------------
(* One call of a source client's entry point *)

Clients == {"ESPN", "Football-Data", "API-Football", "Sofascore"}

\* the leagues ESPNScraper.get_live_soccer_matches_real asks for
EspnLeagues == 8
\* the competitions FootballDataScraper.get_live_matches_real asks for
Competitions == 5
\* self.max_retries, the same in the four clients
max_retries == 3

\* the requests one live fetch makes, one after the other
RequestsOf(c) ==
    CASE c = "ESPN" -> EspnLeagues
      [] c = "Football-Data" -> Competitions
      [] OTHER -> 1

\* 200 with a JSON body: with a live match, without one, or of another
\* shape than the dict of lists the client reads
Bodies == {"live", "empty", "shape"}

\* everything one request attempt can meet: a body, 200 with a body that
\* is not JSON, 429 with a Retry-After in seconds or absent, 429 with a
\* Retry-After date, 403, 404, 500, the session's timeout, a network error
Responses ==
    Bodies \cup {"bad_json", "429", "429_after", "429_date", "401", "403",
                 "404", "500", "timeout", "neterr"}

\* the seconds a Retry-After header advertises
AdvertisedSeconds == {1, 5, 120}

\* the header's value for a response; 0 where there is no number to read
Advertised(resp) == IF resp = "429_after" THEN AdvertisedSeconds ELSE {0}

RateLimited == {"429", "429_after", "429_date"}

\* as if the handlers were only except asyncio.TimeoutError
ExceptTimeoutOnly(exc) == exc = "TimeoutError"

\* except Exception: every exception but the cancellation of the task
ExceptException(exc) == exc # "CancelledError"

\* the exception an attempt raises inside _make_request's try
RaisedBy(c, resp) ==
    CASE resp = "bad_json" -> "ContentTypeError"
      [] resp = "timeout" -> "TimeoutError"
      [] resp = "neterr" -> "ClientError"
      [] resp = "429_date" /\ c \in {"API-Football", "Sofascore"} -> "ValueError"
      [] OTHER -> "none"

\* how one pass of _make_request's loop ends: it returns the body ("data"),
\* returns None ("none"), goes to the next attempt ("again") or lets the
\* exception out ("raise")
AttemptEnd(c, token, resp) ==
    LET exc == RaisedBy(c, resp)
    IN  IF exc # "none"
        THEN IF ExceptException(exc) THEN "again" ELSE "raise"
        ELSE IF resp \in Bodies THEN "data"
        ELSE IF resp \in RateLimited THEN "again"
        ELSE IF resp = "403"
        THEN CASE c \in {"ESPN", "API-Football"} -> "none"
               [] c = "Football-Data" -> IF token THEN "again" ELSE "none"
               [] OTHER -> "again"
        ELSE IF resp = "404" /\ c = "Football-Data" THEN "none"
        ELSE "again"

\* self.rate_limit_delay
rate_limit_delay(c) == IF c = "Football-Data" THEN 6 ELSE 1

\* the sleep before the request of attempt n is sent
Delay(c, n) ==
    IF c \in {"ESPN", "Football-Data"}
    THEN IF n > 0 THEN rate_limit_delay(c) ELSE 0
    ELSE rate_limit_delay(c)

\* the pass ends in a continue: after the sleep of the 429 branch, or
\* after Football-Data has dropped its token on a 403
Continues(c, token, resp) ==
    /\ RaisedBy(c, resp) = "none"
    /\ \/ resp \in RateLimited
       \/ c = "Football-Data" /\ resp = "403" /\ token

\* the sleep of the 429 branch: a fixed one in ESPN and Football-Data,
\* int(response.headers.get('Retry-After', '60')) in the other two
RetryAfter(c, resp, advertised) ==
    IF resp \notin RateLimited \/ RaisedBy(c, resp) # "none" THEN 0
    ELSE CASE c = "ESPN" -> 10
           [] c = "Football-Data" -> 60
           [] OTHER -> IF resp = "429_after" THEN advertised ELSE 60

\* the backoff doubles from 2 seconds
BackoffFromTwo(c, n, token, resp) ==
    IF /\ AttemptEnd(c, token, resp) = "again"
       /\ ~Continues(c, token, resp)
       /\ n < max_retries - 1
    THEN 2 ^ (n + 1)
    ELSE 0

\* if attempt < self.max_retries - 1: await asyncio.sleep(2 ** attempt),
\* reached when the pass neither returned nor continued
Backoff(c, n, token, resp) ==
    IF /\ AttemptEnd(c, token, resp) = "again"
       /\ ~Continues(c, token, resp)
       /\ n < max_retries - 1
    THEN 2 ^ n
    ELSE 0

\* _make_request after this attempt: "pending" while attempts are left
MakeRequest(c, n, token, resp) ==
    LET end == AttemptEnd(c, token, resp)
    IN  IF end = "again"
        THEN IF n + 1 < max_retries THEN "pending" ELSE "none"
        ELSE end

\* the fetch after a request has ended with data ("live", "empty",
\* "shape") or "none": what it has collected, and whether reading the
\* body raised; a body of another shape raises where it is read. The
\* statistics API-Football and Sofascore fetch for a live match only add
\* fields to its record.
Collect(collected, request, data) ==
    IF data = "live" THEN Append(collected, request) ELSE collected

ReadRaises(data) == data = "shape"

\* __aenter__ puts X-Auth-Token among the session headers only for a
\* Football-Data client that has left the free tier and has a token of its
\* own; as constructed the client sends none
WithToken(c, configured) == c = "Football-Data" /\ configured

\* the fetch goes from one pass to the next without a sleep
LeagueSleepNever(c, data) == 0

\* await asyncio.sleep(self.rate_limit_delay) at the end of a pass of the
\* league loop, not reached when reading the body raised
LeagueSleep(c, data) ==
    IF c \in {"ESPN", "Football-Data"} /\ ~ReadRaises(data)
    THEN rate_limit_delay(c)
    ELSE 0

\* how a pass that is followed by another attempt reaches the end of the
\* loop body: through the continue of the 429 branch, through the continue
\* after the token is dropped, or by falling through to the backoff
PassEnd(c, token, resp) ==
    IF ~Continues(c, token, resp) THEN "backoff"
    ELSE IF resp \in RateLimited THEN "rate_limit"
    ELSE "token_dropped"

\* the sleeps of the pass are started but not awaited
SleepsAfterNotAwaited(c, n, token, resp, advertised) ==
    LET made == MakeRequest(c, n, token, resp)
    IN  IF made \in {"data", "none"}
        THEN LeagueSleep(c, IF made = "data" THEN resp ELSE "none")
        ELSE 0

\* the sleeps between the outcome of an attempt and the client's next
\* request, or the end of the fetch
SleepsAfter(c, n, token, resp, advertised) ==
    LET made == MakeRequest(c, n, token, resp)
    IN  RetryAfter(c, resp, advertised) + Backoff(c, n, token, resp)
        + (IF made \in {"data", "none"}
           THEN LeagueSleep(c, IF made = "data" THEN resp ELSE "none")
           ELSE 0)

ClientEnter(c) ==
    /\ cpc = "Idle"
    /\ cpc' = "Fetching"
    /\ client' = c
    /\ league' = 1
    /\ attempt' = 0
    /\ \E configured \in BOOLEAN : has_token' = WithToken(c, configured)
    /\ client_result' = <<>>
    /\ failed_requests' = 0
    /\ client_outcome' = "none"
    /\ last_attempt' = NoAttempt
    /\ waited' = 0
    /\ UNCHANGED <<pipeVars, lateVars, stepVars, parseVars, loopVars>>

\* the entry point ends: with the list, or with the exception if no
\* handler on the way out catches it
ClientEnds(result, exc) ==
    /\ cpc' = "Done"
    /\ client_result' = IF exc = "none" THEN result ELSE <<>>
    /\ client_outcome' =
           IF exc = "none" \/ ExceptException(exc) THEN "returned" ELSE "raised"

\* opening the session fails inside the entry point's try
ClientEnterFails(c) ==
    /\ cpc = "Idle"
    /\ client' = c
    /\ league' = 0
    /\ attempt' = 0
    /\ has_token' = FALSE
    /\ failed_requests' = 0
    /\ ClientEnds(<<>>, "ClientError")
    /\ last_attempt' = NoAttempt
    /\ waited' = 0
    /\ UNCHANGED <<pipeVars, lateVars, stepVars, parseVars, loopVars>>

\* one request attempt and everything the client does until its next one
ClientAttempt(resp, advertised) ==
    /\ cpc = "Fetching"
    /\ last_attempt' =
           [n |-> attempt, resp |-> resp, advertised |-> advertised,
            token |-> has_token,
            delay |-> Delay(client, attempt),
            retry_after |-> RetryAfter(client, resp, advertised),
            backoff |-> Backoff(client, attempt, has_token, resp),
            made |-> MakeRequest(client, attempt, has_token, resp),
            first |-> (league = 1 /\ attempt = 0),
            gap |-> waited + Delay(client, attempt),
            \* the attempt of the same request before this one: how its
            \* pass ended and the sleeps of that pass
            after_path |-> IF attempt > 0
                           THEN PassEnd(client, last_attempt.token,
                                        last_attempt.resp)
                           ELSE "none",
            after_wait |-> IF attempt > 0
                           THEN last_attempt.retry_after + last_attempt.backoff
                           ELSE 0]
    /\ waited' = SleepsAfter(client, attempt, has_token, resp, advertised)
    /\ LET made == MakeRequest(client, attempt, has_token, resp)
           exc == RaisedBy(client, resp)
           data == IF made = "data" THEN resp ELSE "none"
           collected == Collect(client_result, league, data)
           failed == failed_requests + (IF made = "data" THEN 0 ELSE 1)
           looping == client \in {"ESPN", "Football-Data"}
       IN  /\ has_token' = (has_token /\ ~(client = "Football-Data" /\ resp = "403"))
           /\ IF made = "pending"
              THEN /\ attempt' = attempt + 1
                   /\ UNCHANGED <<cpc, league, client_result, failed_requests,
                                  client_outcome>>
              ELSE IF made = "raise"
              THEN \* out of _make_request and of every handler around it
                   /\ ClientEnds(<<>>, exc)
                   /\ failed_requests' = failed
                   /\ UNCHANGED <<league, attempt>>
              ELSE IF ReadRaises(data) /\ ~ExceptException("AttributeError")
              THEN /\ ClientEnds(<<>>, "AttributeError")
                   /\ failed_requests' = failed
                   /\ UNCHANGED <<league, attempt>>
              ELSE IF ReadRaises(data) /\ ~looping
              THEN \* the fetch's own handler returns []
                   /\ ClientEnds(<<>>, "none")
                   /\ failed_requests' = failed
                   /\ UNCHANGED <<league, attempt>>
              ELSE IF league < RequestsOf(client)
              THEN \* the league's handler, or its sleep, then the next league
                   /\ league' = league + 1
                   /\ attempt' = 0
                   /\ client_result' = collected
                   /\ failed_requests' = failed
                   /\ UNCHANGED <<cpc, client_outcome>>
              ELSE /\ ClientEnds(collected, "none")
                   /\ failed_requests' = failed
                   /\ UNCHANGED <<league, attempt>>
    /\ UNCHANGED <<client, pipeVars, lateVars, stepVars, parseVars, loopVars>>

\* the caller has the list; the next call starts from nothing
ClientLeave ==
    /\ cpc = "Done"
    /\ cpc' = "Idle"
    /\ client' = "none"
    /\ league' = 0
    /\ attempt' = 0
    /\ has_token' = FALSE
    /\ client_result' = <<>>
    /\ failed_requests' = 0
    /\ client_outcome' = "none"
    /\ last_attempt' = NoAttempt
    /\ waited' = 0
    /\ UNCHANGED <<pipeVars, lateVars, stepVars, parseVars, loopVars>>

ClientNext ==
    \/ \E c \in Clients : ClientEnter(c)
    \/ \E c \in Clients : ClientEnterFails(c)
    \/ \E resp \in Responses :
           \E advertised \in Advertised(resp) : ClientAttempt(resp, advertised)
    \/ ClientLeave

SpecClient == Init /\ [][ClientNext]_vars

-----------------------------------------------------------------------------
(* One live fetch of a looping client, pass by pass, on the clock *)

LoopClients == {"ESPN", "Football-Data"}

\* the clock of a fetch stops counting past twice the aggregator's deadline
ClockCap == 2 * TIMEOUT + 1

Capped(seconds) == IF seconds > ClockCap THEN ClockCap ELSE seconds

\* self.timeout, the total timeout of the session's requests
timeout == 30

\* the seconds an attempt takes before the client has its outcome: a
\* response that is answered at once, or the session's timeout
Latency(resp) == IF resp = "timeout" THEN timeout ELSE 0

\* what the responses of the passes are drawn from
LoopResponses == {"live", "empty", "shape", "429", "403", "500", "timeout"}

RECURSIVE RunRequest(_, _, _, _, _)
\* one call of _make_request answered by resps, attempt after attempt: how
\* it ended, the body it returned, the seconds it took, the token after
\* it, and whether resps is the whole of it, no response missing or left
RunRequest(c, token, resps, n, seconds) ==
    LET resp == resps[n + 1]
        made == MakeRequest(c, n, token, resp)
        took == seconds + Delay(c, n) + Latency(resp) + RetryAfter(c, resp, 0)
                + Backoff(c, n, token, resp)
        kept == token /\ ~(c = "Football-Data" /\ resp = "403")
    IN  IF made = "pending"
        THEN IF n + 1 < Len(resps)
             THEN RunRequest(c, kept, resps, n + 1, took)
             ELSE [whole |-> FALSE, made |-> made, data |-> "none",
                   seconds |-> took, token |-> kept]
        ELSE [whole |-> n + 1 = Len(resps), made |-> made,
              data |-> IF made = "data" THEN resp ELSE "none",
              seconds |-> took, token |-> kept]

\* the answers one request can get
Answers == UNION {[1..k -> LoopResponses] : k \in 1..max_retries}

\* the live fetch is called
FetchEnter(c) ==
    /\ fpc = "Idle"
    /\ fpc' = "Looping"
    /\ fetcher' = c
    /\ pass' = 1
    /\ \E configured \in BOOLEAN : fetch_token' = WithToken(c, configured)
    /\ fetch_elapsed' = 0
    /\ fetch_matches' = 0
    /\ fetch_raises' = 0
    /\ UNCHANGED <<pipeVars, lateVars, stepVars, clientVars, parseVars>>

\* one pass of the loop: the request with its retries, the reading of the
\* body, and the sleep that ends the pass unless the reading raised
FetchPass(resps) ==
    /\ fpc = "Looping"
    /\ LET request == RunRequest(fetcher, fetch_token, resps, 0, 0)
       IN  /\ request.whole
           /\ fetch_token' = request.token
           /\ fetch_elapsed' =
                  Capped(fetch_elapsed + request.seconds
                         + LeagueSleep(fetcher, request.data))
           /\ fetch_matches' =
                  fetch_matches + (IF request.data = "live" THEN 1 ELSE 0)
           /\ fetch_raises' =
                  fetch_raises + (IF ReadRaises(request.data) THEN 1 ELSE 0)
    /\ IF pass < RequestsOf(fetcher)
       THEN pass' = pass + 1 /\ UNCHANGED fpc
       ELSE fpc' = "Done" /\ UNCHANGED pass
    /\ UNCHANGED <<fetcher, pipeVars, lateVars, stepVars, clientVars, parseVars>>

\* the caller has the list
FetchLeave ==
    /\ fpc = "Done"
    /\ fpc' = "Idle"
    /\ fetcher' = "none"
    /\ pass' = 0
    /\ fetch_token' = FALSE
    /\ fetch_elapsed' = 0
    /\ fetch_matches' = 0
    /\ fetch_raises' = 0
    /\ UNCHANGED <<pipeVars, lateVars, stepVars, clientVars, parseVars>>

LoopNext ==
    \/ \E c \in LoopClients : FetchEnter(c)
    \/ \E resps \in Answers : FetchPass(resps)
    \/ FetchLeave

SpecLoop == Init /\ [][LoopNext]_vars

-----------------------------------------------------------------------------
(* The soccer task of get_multi_sport_live_real: the aggregate under a
   wait_for of its own *)

\* the wait_for calls that can expire: the one around the aggregate and the
\* one around each source inside it
Timers == {"outer"} \cup SourceSet

Armed(t) ==
    IF t = "outer" THEN mpc = "Waiting"
    ELSE pc = "Fetching" /\ call[t] = "running"

When(t) == IF t = "outer" THEN outer_deadline ELSE deadline[t]

\* the timer of a source goes off before the one around the aggregate
BeforeSourceFirst(t, u) ==
    \/ When(t) < When(u)
    \/ When(t) = When(u) /\ u = "outer"

\* the event loop runs the expired timers in the order of their times; the
\* wait_for around the aggregate is armed before the aggregate takes its
\* first step, so within one second of the clock it comes first
Before(t, u) ==
    \/ When(t) < When(u)
    \/ When(t) = When(u) /\ t = "outer" /\ u # "outer"

\* tasks.append(self._safe_scraper_call("Soccer", ...)); gather starts it and
\* it arms wait_for(scraper_func(), timeout=15.0)
MultiStart ==
    /\ mpc = "Idle" /\ pc = "Idle"
    /\ mpc' = "Waiting"
    /\ outer_deadline' = now + TIMEOUT
    /\ UNCHANGED <<soccer_call, soccer, earlyVars, besideMulti>>

\* the basketball and tennis tasks take their first steps before the
\* aggregate takes its own
MultiDelay ==
    /\ mpc = "Waiting" /\ pc = "Idle" /\ now = 0
    /\ now' = 1
    /\ UNCHANGED <<pc, deadline, call, results, first_done, all_matches,
                   source_counts, agg_outcome, unique_matches, quality_scores,
                   run_result, validation_stats, val_outcome, real_matches,
                   sideVars>>

\* get_all_live_matches_real starts inside the wait_for
SoccerStarts == mpc = "Waiting" /\ StartRun

\* time passes until the next wait_for expires
MultiTick ==
    /\ mpc = "Waiting" /\ pc = "Fetching"
    /\ \E s \in SourceSet : call[s] = "running"
    /\ \A t \in Timers : Armed(t) => now < When(t)
    /\ now' = SetMin({When(t) : t \in {u \in Timers : Armed(u)}})
    /\ UNCHANGED <<pc, deadline, call, results, first_done, all_matches,
                   source_counts, agg_outcome, unique_matches, quality_scores,
                   run_result, validation_stats, val_outcome, real_matches,
                   sideVars>>

\* an expired wait_for cancels what it waits for: the one around a source
\* makes its _safe_scraper_call return [], the one around the aggregate
\* cancels the gather and every call still running, and the soccer task's
\* _safe_scraper_call returns []
TimerFires(t) ==
    /\ mpc = "Waiting"
    /\ Armed(t) /\ now >= When(t)
    /\ \A u \in Timers \ {t} : Armed(u) /\ now >= When(u) => ~Before(u, t)
    /\ IF t = "outer"
       THEN /\ mpc' = "Done"
            /\ soccer_call' = "timeout"
            /\ soccer' = <<>>
            /\ pc' = "Cancelled"
            /\ call' = [s \in SourceSet |->
                           IF call[s] = "running" THEN "cancelled"
                           ELSE call[s]]
            /\ UNCHANGED <<now, deadline, results, first_done, all_matches,
                           source_counts, agg_outcome, unique_matches,
                           quality_scores, run_result, validation_stats,
                           val_outcome, real_matches, outer_deadline,
                           stepVars, clientVars, parseVars, loopVars,
                           besideMulti>>
       ELSE Settle(t, "timeout", <<>>)

\* the aggregate returns its list before the deadline: the list is the
\* soccer task's result
SoccerReturns ==
    /\ mpc = "Waiting" /\ pc \in {"Validating", "Done"}
    /\ now < outer_deadline
    /\ mpc' = "Done"
    /\ soccer_call' = "completed"
    /\ soccer' = unique_matches
    /\ UNCHANGED <<outer_deadline, earlyVars, besideMulti>>

\* the next call
MultiLeave ==
    /\ mpc = "Done"
    /\ mpc' = "Idle"
    /\ outer_deadline' = 0
    /\ soccer_call' = "none"
    /\ soccer' = <<>>
    /\ pc' = "Idle"
    /\ now' = 0
    /\ deadline' = [s \in SourceSet |-> 0]
    /\ call' = [s \in SourceSet |-> "idle"]
    /\ results' = [s \in SourceSet |-> <<>>]
    /\ first_done' = "none"
    /\ all_matches' = <<>>
    /\ source_counts' = <<>>
    /\ agg_outcome' = "none"
    /\ unique_matches' = <<>>
    /\ UNCHANGED <<quality_scores, run_result, validation_stats, val_outcome,
                   real_matches, stepVars, clientVars, parseVars, loopVars,
                   besideMulti>>

MultiNext ==
    \/ MultiStart
    \/ MultiDelay
    \/ SoccerStarts
    \/ \E s \in SourceSet : ScraperReturns(s)
    \/ \E s \in SourceSet : ScraperReturnsNonList(s)
    \/ \E s \in SourceSet : ScraperRaises(s)
    \/ MultiTick
    \/ \E t \in Timers : TimerFires(t)
    \/ Consolidate
    \/ Merge
    \/ SoccerReturns
    \/ MultiLeave

SpecMulti == Init /\ [][MultiNext]_vars

-----------------------------------------------------------------------------
(* The live-score update: the scheduler's update_live_scores and the
   POST /live-scores/update endpoint, two processes on one table *)

\* most matches one scrape returns
MaxFetched == 2

\* lists of match_ids scrape_live_scores can return
Scraped == SeqsUpTo(Ids, MaxFetched)

\* updated_count += 1 comes after the update or the insert has returned
NextCount(count, ok) == IF ok THEN count + 1 ELSE count

\* live_matches = await scrape_live_scores(); an empty list ends the run,
\* and so does a client that could not be created
UpdateEnter(r, list, client_ok) ==
    /\ rpc[r] = "Idle"
    /\ fetched' = [fetched EXCEPT ![r] = list]
    /\ connected' = [connected EXCEPT ![r] = client_ok]
    /\ idx' = [idx EXCEPT ![r] = 1]
    /\ rpc' = [rpc EXCEPT ![r] =
                  IF Len(list) = 0 \/ ~client_ok THEN "Done" ELSE "Select"]
    /\ UNCHANGED <<rows, existing, written, updated_count, earlyVars,
                   besideStore>>

\* the loop goes on to the next match, or ends after the last
Advance(r) ==
    /\ idx' = [idx EXCEPT ![r] = idx[r] + 1]
    /\ rpc' = [rpc EXCEPT ![r] =
                  IF idx[r] = Len(fetched[r]) THEN "Done" ELSE "Select"]

\* existing = table('live_matches').select('*').eq('external_id', ...)
Select(r) ==
    /\ rpc[r] = "Select"
    /\ existing' = [existing EXCEPT ![r] = rows[fetched[r][idx[r]]] > 0]
    /\ rpc' = [rpc EXCEPT ![r] = "Write"]
    /\ UNCHANGED <<rows, fetched, connected, idx, written, updated_count,
                   earlyVars, besideStore>>

\* the select raises: except Exception ... continue
SelectRaises(r) ==
    /\ rpc[r] = "Select"
    /\ Advance(r)
    /\ updated_count' =
           [updated_count EXCEPT ![r] = NextCount(updated_count[r], FALSE)]
    /\ UNCHANGED <<rows, fetched, connected, existing, written, earlyVars,
                   besideStore>>

\* if existing.data: update(...).eq('external_id', ...) else: insert(...)
Write(r) ==
    /\ rpc[r] = "Write"
    /\ LET id == fetched[r][idx[r]]
       IN  rows' = IF existing[r] THEN rows
                   ELSE [rows EXCEPT ![id] = rows[id] + 1]
    /\ written' = [written EXCEPT ![r] = written[r] + 1]
    /\ updated_count' =
           [updated_count EXCEPT ![r] = NextCount(updated_count[r], TRUE)]
    /\ Advance(r)
    /\ UNCHANGED <<fetched, connected, existing, earlyVars, besideStore>>

\* the update or the insert raises: except Exception ... continue
WriteRaises(r) ==
    /\ rpc[r] = "Write"
    /\ updated_count' =
           [updated_count EXCEPT ![r] = NextCount(updated_count[r], FALSE)]
    /\ Advance(r)
    /\ UNCHANGED <<rows, fetched, connected, existing, written, earlyVars,
                   besideStore>>

\* the run has returned its count; the table stays as it is
UpdateLeave(r) ==
    /\ rpc[r] = "Done"
    /\ rpc' = [rpc EXCEPT ![r] = "Idle"]
    /\ fetched' = [fetched EXCEPT ![r] = <<>>]
    /\ connected' = [connected EXCEPT ![r] = FALSE]
    /\ idx' = [idx EXCEPT ![r] = 0]
    /\ existing' = [existing EXCEPT ![r] = FALSE]
    /\ written' = [written EXCEPT ![r] = 0]
    /\ updated_count' = [updated_count EXCEPT ![r] = 0]
    /\ UNCHANGED <<rows, earlyVars, besideStore>>

StoreNext ==
    \/ \E r \in Runs : \E list \in Scraped : \E client_ok \in BOOLEAN :
           UpdateEnter(r, list, client_ok)
    \/ \E r \in Runs : Select(r)
    \/ \E r \in Runs : SelectRaises(r)
    \/ \E r \in Runs : Write(r)
    \/ \E r \in Runs : WriteRaises(r)
    \/ \E r \in Runs : UpdateLeave(r)

SpecStore == Init /\ [][StoreNext]_vars

-----------------------------------------------------------------------------
(* LiveScoresScheduler.run_scheduler: the loop, its updates and stop() *)

\* run_scheduler() is called and a task holds the coroutine; it has not
\* taken its first step
SchedCall ==
    /\ spc = "Created"
    /\ spc' = "Called"
    /\ UNCHANGED <<running, stop_called, begun_after_stop, in_flight,
                   failed_update, earlyVars, multiVars, storeVars, managerVars>>

\* self.running = True
SchedFirstStep ==
    /\ spc = "Called"
    /\ running' = TRUE
    /\ spc' = "Test"
    /\ UNCHANGED <<stop_called, begun_after_stop, in_flight, failed_update,
                   earlyVars, multiVars, storeVars, managerVars>>

\* while self.running: await self.update_live_scores()
SchedTest ==
    /\ spc = "Test"
    /\ IF running
       THEN /\ spc' = "Updating"
            /\ in_flight' = in_flight + 1
            /\ begun_after_stop' = (begun_after_stop \/ stop_called)
       ELSE /\ spc' = "Returned"
            /\ UNCHANGED <<in_flight, begun_after_stop>>
    /\ UNCHANGED <<running, stop_called, failed_update, earlyVars, multiVars,
                   storeVars, managerVars>>

\* the update's own steps
SchedEnter ==
    /\ spc = "Updating"
    /\ \E list \in Scraped : \E client_ok \in BOOLEAN :
           UpdateEnter("scheduler", list, client_ok)

SchedSelect == spc = "Updating" /\ Select("scheduler")

SchedSelectRaises == spc = "Updating" /\ SelectRaises("scheduler")

SchedWrite == spc = "Updating" /\ Write("scheduler")

SchedWriteRaises == spc = "Updating" /\ WriteRaises("scheduler")

\* the update got nothing from the scrape, had no client, or lost a write
FellShort(r) ==
    \/ Len(fetched[r]) = 0
    \/ updated_count[r] < Len(fetched[r])

\* update_live_scores returns its count, 0 after a failure it caught; its
\* handlers catch every Exception, so the except clause of the loop is
\* never entered; await asyncio.sleep(self.update_interval) follows
SchedUpdateReturns ==
    /\ spc = "Updating" /\ rpc["scheduler"] = "Done"
    /\ spc' = "Sleeping"
    /\ in_flight' = in_flight - 1
    /\ failed_update' = (failed_update \/ FellShort("scheduler"))
    /\ rpc' = [rpc EXCEPT !["scheduler"] = "Idle"]
    /\ fetched' = [fetched EXCEPT !["scheduler"] = <<>>]
    /\ connected' = [connected EXCEPT !["scheduler"] = FALSE]
    /\ idx' = [idx EXCEPT !["scheduler"] = 0]
    /\ existing' = [existing EXCEPT !["scheduler"] = FALSE]
    /\ written' = [written EXCEPT !["scheduler"] = 0]
    /\ updated_count' = [updated_count EXCEPT !["scheduler"] = 0]
    /\ UNCHANGED <<rows, running, stop_called, begun_after_stop, earlyVars,
                   multiVars, managerVars>>

\* the sleep is over: back to the loop's test
SchedSleepEnds ==
    /\ spc = "Sleeping"
    /\ spc' = "Test"
    /\ UNCHANGED <<running, stop_called, begun_after_stop, in_flight,
                   failed_update, earlyVars, multiVars, storeVars, managerVars>>

\* stop(): self.running = False, from any other task once run_scheduler
\* has been called
Stop ==
    /\ spc # "Created"
    /\ running' = FALSE
    /\ stop_called' = TRUE
    /\ UNCHANGED <<spc, begun_after_stop, in_flight, failed_update,
                   earlyVars, multiVars, storeVars, managerVars>>

\* what the loop does by itself
SchedLoop ==
    \/ SchedFirstStep
    \/ SchedTest
    \/ SchedEnter
    \/ SchedSelect
    \/ SchedSelectRaises
    \/ SchedWrite
    \/ SchedWriteRaises
    \/ SchedUpdateReturns
    \/ SchedSleepEnds

SchedNext ==
    \/ SchedCall
    \/ SchedFirstStep
    \/ SchedTest
    \/ SchedEnter
    \/ SchedSelect
    \/ SchedSelectRaises
    \/ SchedWrite
    \/ SchedWriteRaises
    \/ SchedUpdateReturns
    \/ SchedSleepEnds
    \/ Stop

SpecSched == Init /\ [][SchedNext]_vars

\* every await of the loop returns in the end
SpecSchedFair == SpecSched /\ WF_vars(SchedLoop)

-----------------------------------------------------------------------------
(* SchedulerManager: start, stop and one run of the live scraping job *)

\* largest count the matches table returns
MaxLive == 2

\* is_running, the scheduler's state and the job's presence
Manager == <<is_running, sched_started, scheduled>>

Called(op, after) ==
    [op |-> op, found_running |-> is_running, before |-> Manager,
     after |-> after]

\* start(): if self.is_running: return; else scheduler.start(), is_running
\* = True and the jobs the settings enable are added
Start(enable_live_scraping) ==
    /\ LET after == IF is_running THEN Manager
                    ELSE <<TRUE, TRUE, scheduled \/ enable_live_scraping>>
       IN  /\ is_running' = after[1]
           /\ sched_started' = after[2]
           /\ scheduled' = after[3]
           /\ last_call' = Called("start", after)
    /\ UNCHANGED <<jpc, job_status, live_count, count_read, scrape,
                   besideManager>>

\* scheduler.start() raises: the handler logs and raises again
StartRaises ==
    /\ ~is_running
    /\ last_call' = Called("start_raised", Manager)
    /\ UNCHANGED <<is_running, sched_started, scheduled, jpc, job_status,
                   live_count, count_read, scrape, besideManager>>

\* stop(): if not self.is_running: return; else scheduler.shutdown(wait=True)
\* and is_running = False
ManagerStop ==
    /\ LET after == IF ~is_running THEN Manager
                    ELSE <<FALSE, FALSE, scheduled>>
       IN  /\ is_running' = after[1]
           /\ sched_started' = after[2]
           /\ scheduled' = after[3]
           /\ last_call' = Called("stop", after)
    /\ UNCHANGED <<jpc, job_status, live_count, count_read, scrape,
                   besideManager>>

\* shutdown raises: the handler logs it
StopRaises ==
    /\ is_running
    /\ last_call' = Called("stop_raised", Manager)
    /\ UNCHANGED <<is_running, sched_started, scheduled, jpc, job_status,
                   live_count, count_read, scrape, besideManager>>

\* the interval trigger runs the job, one instance at a time:
\* jobs_status[job_id] = {'status': 'running', ...}
JobStart ==
    /\ sched_started /\ scheduled /\ jpc = "Idle"
    /\ jpc' = "Counting"
    /\ job_status' = "running"
    /\ live_count' = 0
    /\ count_read' = "none"
    /\ scrape' = "none"
    /\ UNCHANGED <<is_running, sched_started, scheduled, last_call,
                   besideManager>>

\* the scrape is made whatever the count
ScrapesAlways(count) == TRUE

\* if live_count > 0:
Scrapes(count) == count > 0

\* live_count = await self._check_live_matches_count(): the count, or 0
\* when reading it raised; without live matches the job is skipped
JobCounts(count, read) ==
    /\ jpc = "Counting"
    /\ LET n == IF read THEN count ELSE 0
       IN  /\ live_count' = n
           /\ count_read' = IF read THEN "read" ELSE "failed"
           /\ IF Scrapes(n)
              THEN jpc' = "Scraping" /\ UNCHANGED job_status
              ELSE jpc' = "Returned" /\ job_status' = "skipped"
    /\ UNCHANGED <<is_running, sched_started, scheduled, scrape, last_call,
                   besideManager>>

\* matches_scraped = await scrape_live_matches(): a list, [] when the
\* scrape failed, for scrape_live_matches catches every Exception itself;
\* the except clause of the job is never entered
JobScrapes(failed_inside) ==
    /\ jpc = "Scraping"
    /\ scrape' = IF failed_inside THEN "returned_empty" ELSE "returned"
    /\ job_status' = "completed"
    /\ jpc' = "Returned"
    /\ UNCHANGED <<is_running, sched_started, scheduled, live_count,
                   count_read, last_call, besideManager>>

\* the job has returned; its status stays in jobs_status
JobLeave ==
    /\ jpc = "Returned"
    /\ jpc' = "Idle"
    /\ UNCHANGED <<is_running, sched_started, scheduled, job_status,
                   live_count, count_read, scrape, last_call, besideManager>>

ManagerNext ==
    \/ \E enable_live_scraping \in BOOLEAN : Start(enable_live_scraping)
    \/ StartRaises
    \/ ManagerStop
    \/ StopRaises
    \/ JobStart
    \/ \E count \in 0..MaxLive : \E read \in BOOLEAN : JobCounts(count, read)
    \/ \E failed_inside \in BOOLEAN : JobScrapes(failed_inside)
    \/ JobLeave

SpecManager == Init /\ [][ManagerNext]_vars

-----------------------------------------------------------------------------
(* One provider payload through a parser *)

MaxEvents == 2

\* d.get(key, default): the default only when the key is missing
DictGet(v, default) == IF v.t = "absent" THEN default ELSE v

\* d.get(key)
DictGetNone(v) == DictGet(v, JNull)

\* the truth value of a JSON value: 0, '' and None are falsy
Bool(v) ==
    CASE v.t = "int" -> v.n # 0
      [] v.t = "str" -> v.s # <<>>
      [] OTHER -> FALSE

DigitChars == <<"0", "1", "2", "3", "4", "5", "6", "7", "8", "9">>

IsNumeral(s) ==
    s # <<>> /\ \A i \in 1..Len(s) : \E d \in 1..10 : DigitChars[d] = s[i]

RECURSIVE NumeralValue(_)
NumeralValue(s) ==
    IF s = <<>> THEN 0
    ELSE NumeralValue(SubSeq(s, 1, Len(s) - 1)) * 10
         + (CHOOSE d \in 1..10 : DigitChars[d] = s[Len(s)]) - 1

\* int(v): a number as it is, a string of digits (whitespace around it
\* stripped) as its value, ValueError for any other string, TypeError for
\* None
PyInt(v) ==
    CASE v.t = "int" -> v
      [] v.t = "str" ->
           IF IsNumeral(Strip(v.s)) THEN JInt(NumeralValue(Strip(v.s)))
           ELSE Raised("ValueError")
      [] OTHER -> Raised("TypeError")

Parsers ==
    {"espn_live", "espn_today", "api_football_live", "api_football_today",
     "football_data_live", "football_data_today", "sofascore_live",
     "live_scores_espn"}

\* the expression each parser has for 'home_score' and for 'away_score',
\* v being what the payload holds under the key it reads
ScoreOf(p, v) ==
    CASE p \in {"espn_live", "live_scores_espn"} ->
           \* int(home_team.get('score', 0))
           PyInt(DictGet(v, JInt(0)))
      [] p = "espn_today" ->
           \* int(home_team.get('score', 0)) if home_team.get('score') else None
           IF Bool(DictGetNone(v)) THEN PyInt(DictGet(v, JInt(0))) ELSE JNull
      [] p = "api_football_live" ->
           \* goals.get('home') or 0
           IF Bool(DictGetNone(v)) THEN DictGetNone(v) ELSE JInt(0)
      [] p \in {"football_data_live", "sofascore_live"} ->
           \* score.get('fullTime', {}).get('home', 0)
           DictGet(v, JInt(0))
      [] OTHER ->
           \* goals.get('home'), score.get('fullTime', {}).get('home')
           DictGetNone(v)

\* the parser's try block on one event: the match, or the exception its
\* except Exception turns into None
ParseMatch(p, event) ==
    LET home_score == ScoreOf(p, event.home)
        away_score == ScoreOf(p, event.away)
    IN  IF home_score.t = "raise" THEN home_score
        ELSE IF away_score.t = "raise" THEN away_score
        ELSE [t |-> "match", id |-> event.id, home_score |-> home_score,
              away_score |-> away_score]

\* LiveScoresScraper._parse_espn_data has its try around the loop: the
\* first exception ends the loop; the other fetches skip the event
AbortsOnError(p) == p = "live_scores_espn"

RECURSIVE ParseFrom(_, _, _, _)
ParseFrom(p, evs, i, matches) ==
    IF i > Len(evs) THEN matches
    ELSE LET match == ParseMatch(p, evs[i])
         IN  IF match.t = "match"
             THEN ParseFrom(p, evs, i + 1, Append(matches, match))
             ELSE IF AbortsOnError(p) THEN matches
             ELSE ParseFrom(p, evs, i + 1, matches)

\* the matches a fetch collects from the events of one payload
ParseEvents(p, evs) == ParseFrom(p, evs, 1, <<>>)

\* what a provider may hold where the home score is read
HomeValues ==
    {JAbsent, JNull, JInt(0), JInt(2), JStr(<<"0">>), JStr(<<"2">>),
     JStr(<<"x">>)}

\* and where the away score is read
AwayValues == {JAbsent, JInt(1), JStr(<<"x">>)}

\* the payloads: up to MaxEvents live events with valid teams and ids
Payloads ==
    UNION {[1..n -> [home : HomeValues, away : AwayValues]] : n \in 0..MaxEvents}

Numbered(evs) ==
    [i \in 1..Len(evs) |-> [id |-> i, home |-> evs[i].home, away |-> evs[i].away]]

\* a fetch has a payload and parses its events
ParseEnter(p, evs) ==
    /\ ppc = "Idle"
    /\ ppc' = "Parsed"
    /\ parser' = p
    /\ events' = Numbered(evs)
    /\ parsed' = ParseEvents(p, Numbered(evs))
    /\ UNCHANGED <<pipeVars, lateVars, stepVars, clientVars, loopVars>>

\* the caller has the matches
ParseLeave ==
    /\ ppc = "Parsed"
    /\ ppc' = "Idle"
    /\ parser' = "none"
    /\ events' = <<>>
    /\ parsed' = <<>>
    /\ UNCHANGED <<pipeVars, lateVars, stepVars, clientVars, loopVars>>

ParseNext ==
    \/ \E p \in Parsers : \E evs \in Payloads : ParseEnter(p, evs)
    \/ ParseLeave

SpecParse == Init /\ [][ParseNext]_vars

-----------------------------------------------------------------------------
(* Claims about the aggregate call and the pipeline run *)

Aggregated == pc \in {"Validating", "Done", "Served"}

\* the fields a source client wrote, without what later steps added
Raw(match) ==
    [match EXCEPT !.unified_key = Absent, !.is_deduplicated = FALSE,
                  !.validation_score = 0, !.is_validated_real = FALSE,
                  !.data_guarantee = Absent]

\* C1: whatever the sources did, the aggregate call ends by returning a
\* list; it never ends with an error
C1_AggregateAlwaysReturns ==
    Aggregated => agg_outcome = "returned"

\* C2: when a source uses up its deadline, its call counts as an empty
\* result, the aggregate call returns when that one deadline has passed,
\* and the list returned covers every record of the sources that answered
C2_TimeoutBound ==
    (Aggregated /\ \E s \in SourceSet : call[s] = "timeout") =>
        /\ \A s \in SourceSet : call[s] = "timeout" => results[s] = <<>>
        /\ now <= TIMEOUT
        /\ agg_outcome = "returned"
        /\ \A s \in SourceSet : \A i \in DOMAIN results[s] :
               \E j \in DOMAIN unique_matches :
                   unique_matches[j].unified_key = UnifiedKey(results[s][i])

\* the record's key is reported by no other source in this run
OwnKey(s, match) ==
    \A t \in SourceSet \ {s} : \A i \in DOMAIN results[t] :
        Keyable(results[t][i]) => UnifiedKey(results[t][i]) # UnifiedKey(match)

\* the source raised, returned something that is no list, or timed out
Failed(s) == call[s] \in {"error", "invalid_type", "timeout"}

\* C3: with two of the four sources failing, the run returns the records
\* of the other two that have their own key and pass validation
C3_PartialFailure ==
    (pc = "Done" /\ Cardinality({s \in SourceSet : Failed(s)}) = 2) =>
        \A s \in SourceSet : \A i \in DOMAIN results[s] :
            LET match == results[s][i]
            IN  ( /\ Keyable(match)
                  /\ OwnKey(s, match)
                  /\ ~SimulationRaises(match)
                  /\ QualityScore(match) >= AcceptThreshold ) =>
                \E j \in DOMAIN run_result : Raw(run_result[j]) = match

Score(match) == <<match.home_score, match.away_score>>

\* the identity of a record in the unified step: the two names lower-cased
\* and stripped, home first, and the first ten characters of the start time
IdentityKey(match) ==
    Strip(Lower(Get(match, "home_team", <<>>))) \o <<"_">>
    \o Strip(Lower(Get(match, "away_team", <<>>))) \o <<"_">>
    \o Prefix(Get(match, "start_time", <<>>), DateLen)

\* the identity key of each record of the list
KeyList(list) == [i \in DOMAIN list |-> IdentityKey(list[i])]

KeysOf(list) == {IdentityKey(list[i]) : i \in DOMAIN list}

RawOf(list) == {Raw(list[i]) : i \in DOMAIN list}

Merged == pc # "Merging" /\ agg_outcome = "returned"

\* C5: when the deduplication step returns, its output has exactly one
\* record for each identity key of its input: no key twice, no key of the
\* input missing, and every output record is one input record, unchanged,
\* so records of different keys are never blended
C5_OnePerKey ==
    Merged =>
        \A kept \in {KeyList(unique_matches)} :
            /\ \A i, j \in DOMAIN kept : kept[i] = kept[j] => i = j
            /\ {kept[i] : i \in DOMAIN kept} = KeysOf(all_matches)
            /\ RawOf(unique_matches) \subseteq RawOf(all_matches)

\* three records, two of one key and one alone with its key: two come out
C5_Witness ==
    /\ Merged
    /\ Len(all_matches) = 3
    /\ Cardinality(KeysOf(all_matches)) = 2
    /\ Len(unique_matches) = 2

\* out keeps, for each key of list, the first record of list with that key
KeepsFirst(list, out) ==
    \A given \in {KeyList(list)} : \A kept \in {KeyList(out)} :
        /\ Len(out) = Cardinality({given[i] : i \in DOMAIN given})
        /\ \A k \in DOMAIN out :
               LET first == SetMin({i \in DOMAIN given : given[i] = kept[k]})
               IN  Raw(out[k]) = Raw(list[first])

LiveIdentity(match) ==
    {Strip(Lower(match.home_team)), Strip(Lower(match.away_team))}

LiveKeysOf(list) == {LiveIdentity(list[i]) : i \in DOMAIN list}

Compared == step = "end"

\* C7 as stated: the step gives the same records for every order of the
\* same raw records, and the same output when run twice on one list
C7_OrderIndependent ==
    Compared =>
        /\ again_out.outcome = agg_outcome
        /\ again_out.unique_matches = unique_matches
        /\ permuted_out.outcome = agg_outcome
        /\ RawOf(permuted_out.unique_matches) = RawOf(unique_matches)
        /\ live_permuted_out.outcome = live_out.outcome
        /\ RawOf(live_permuted_out.unique_matches) =
               RawOf(live_out.unique_matches)

\* C7 as the code has it: run twice on one list the step gives identical
\* output; run on a permutation it ends the same way and gives one record
\* for each of the same identity keys, and the record kept for a key is
\* the first one with that key in the order given
C7_FirstSeenWins ==
    Compared =>
        /\ again_out.outcome = agg_outcome
        /\ again_out.unique_matches = unique_matches
        /\ permuted_out.outcome = agg_outcome
        /\ agg_outcome = "returned" =>
               /\ KeysOf(permuted_out.unique_matches) = KeysOf(unique_matches)
               /\ Len(permuted_out.unique_matches) = Len(unique_matches)
               /\ KeepsFirst(all_matches, unique_matches)
               /\ KeepsFirst(permuted, permuted_out.unique_matches)
        /\ live_permuted_out.outcome = live_out.outcome
        /\ live_out.outcome = "returned" =>
               /\ LiveKeysOf(live_permuted_out.unique_matches) =
                      LiveKeysOf(live_out.unique_matches)
               /\ Len(live_permuted_out.unique_matches) =
                      Len(live_out.unique_matches)

\* the same two reports of the derby in both orders: each order keeps the
\* report it met first, so the scores kept differ
C7_Witness ==
    /\ Compared
    /\ agg_outcome = "returned"
    /\ Len(all_matches) = 2
    /\ permuted # all_matches
    /\ Len(unique_matches) = 1
    /\ Len(permuted_out.unique_matches) = 1
    /\ Score(unique_matches[1]) = <<1, 0>>
    /\ Score(permuted_out.unique_matches[1]) = <<1, 1>>
    /\ again_out.unique_matches = unique_matches

Name(match, side) == Strip(Lower(Get(match, side, <<>>)))

Date(match) == Prefix(Get(match, "start_time", <<>>), DateLen)

\* what of a record can make it the same match as another
Normalised(match) ==
    [home |-> Name(match, "home_team"), away |-> Name(match, "away_team"),
     date |-> Date(match)]

SameTeamsInOrder(a, b) == a.home = b.home /\ a.away = b.away

SameTeamsAnyOrder(a, b) == {a.home, a.away} = {b.home, b.away}

SameBySortedNamesAndDate(a, b) == SameTeamsAnyOrder(a, b) /\ a.date = b.date

SameByNamesInOrderAndDate(a, b) == SameTeamsInOrder(a, b) /\ a.date = b.date

\* one record of out stands for each record of list, and it stands for
\* exactly the records of list that are the same match
GroupedBy(list, out, Same(_, _)) ==
    \A given \in {[i \in DOMAIN list |-> Normalised(list[i])]} :
    \A kept \in {[k \in DOMAIN out |-> Normalised(out[k])]} :
    \A stand \in {[i \in DOMAIN list |->
                      {k \in DOMAIN out : Same(kept[k], given[i])}]} :
        \A i \in DOMAIN list :
            /\ Cardinality(stand[i]) = 1
            /\ \A j \in DOMAIN list :
                   Same(given[i], given[j]) <=> stand[i] = stand[j]

\* C8 as stated: records are one match exactly when their normalised names,
\* taken as a sorted pair, and their calendar dates agree; both steps merge
\* such records, home and away swapped included, and keep dates apart
C8_SortedNamesAndDate ==
    Compared =>
        /\ agg_outcome = "returned" =>
               GroupedBy(all_matches, unique_matches, SameBySortedNamesAndDate)
        /\ live_out.outcome = "returned" =>
               GroupedBy(all_matches, live_out.unique_matches,
                         SameBySortedNamesAndDate)

\* C8 as the code has it: the unified step takes records as one match
\* exactly when the lower-cased, stripped names agree with home and away in
\* the same places and the first ten characters of the start time agree,
\* so a swapped report stays a second record; the live-scores step takes
\* them as one match exactly when the names agree as a sorted pair,
\* whatever the date
C8_KeyAsBuilt ==
    Compared =>
        /\ agg_outcome = "returned" =>
               GroupedBy(all_matches, unique_matches, SameByNamesInOrderAndDate)
        /\ live_out.outcome = "returned" =>
               GroupedBy(all_matches, live_out.unique_matches,
                         SameTeamsAnyOrder)

\* the derby, the same in other case and padding, and the same with home
\* and away swapped: the unified step keeps the first and the swapped one,
\* the live-scores step only the first
C8_Witness ==
    /\ Compared
    /\ agg_outcome = "returned"
    /\ Len(all_matches) = 3
    /\ Name(all_matches[2], "home_team") = Name(all_matches[1], "home_team")
    /\ all_matches[2].home_team # all_matches[1].home_team
    /\ SameBySortedNamesAndDate(Normalised(all_matches[3]),
                                Normalised(all_matches[1]))
    /\ ~SameTeamsInOrder(Normalised(all_matches[3]), Normalised(all_matches[1]))
    /\ Len(unique_matches) = 2
    /\ Raw(unique_matches[2]) = Raw(all_matches[3])
    /\ Len(live_out.unique_matches) = 1

Scored == pc \in {"Done", "Served"} /\ val_outcome = "returned"

\* the four plausibility checks a record passes
ChecksPassed(match) ==
    {check \in {"teams", "timestamp", "source", "no_placeholder"} :
        \/ check = "teams" /\ HasTeams(match)
        \/ check = "timestamp" /\ HasTimestamp(match)
        \/ check = "source" /\ HasSource(match)
        \/ check = "no_placeholder" /\ ~IsSimulation(match)}

\* C9: the quality score of a record is the number of the four checks it
\* passes, so it lies in 0..4, and the accepted records are exactly the
\* records of score 4, in input order, each carrying that score
C9_ScoreCountsChecks ==
    Scored =>
        /\ Len(quality_scores) = Len(unique_matches)
        /\ \A i \in DOMAIN unique_matches :
               /\ quality_scores[i] =
                      Cardinality(ChecksPassed(unique_matches[i]))
               /\ quality_scores[i] \in 0..4
               /\ (quality_scores[i] = 4) <=>
                      \E j \in DOMAIN run_result :
                          Raw(run_result[j]) = Raw(unique_matches[i])
        /\ \A j \in DOMAIN run_result :
               /\ run_result[j].validation_score = 4
               /\ \E i \in DOMAIN unique_matches :
                      Raw(run_result[j]) = Raw(unique_matches[i])
        /\ Len(run_result) =
               Cardinality({i \in DOMAIN unique_matches : quality_scores[i] = 4})

\* a record of score 4 is accepted next to one of score 3 that is not
C9_Witness ==
    /\ Scored
    /\ Len(unique_matches) = 2
    /\ quality_scores = <<3, 4>>
    /\ Len(run_result) = 1
    /\ Raw(run_result[1]) = Raw(unique_matches[2])

\* the records a caller of the run gets back: get_unified_live_matches_100_real
\* returns the accepted list alone and validate_real_data returns it with
\* the four counters, so no list holds a rejected record
RejectedRetained == {}

Accepted == {Raw(run_result[j]) : j \in DOMAIN run_result}

\* C11 as stated: each record handed to the validator is afterwards in the
\* accepted list or in a retained list of rejected records, never in both
\* and never in neither
C11_RejectedRetained ==
    Scored =>
        \A i \in DOMAIN unique_matches :
            LET match == Raw(unique_matches[i])
            IN  (match \in Accepted) # (match \in RejectedRetained)

\* the records of the list whose score lies in the range
ScoredIn(lo, hi) ==
    {i \in DOMAIN unique_matches :
        quality_scores[i] >= lo /\ quality_scores[i] <= hi}

\* What the validator does keep of a rejected record (C11): each record handed to it is either
\* accepted or counted once, as suspicious (score 2 or 3) or as invalid
\* (score 0 or 1); the counters add up to the total, but a rejected record
\* is kept in no list the run returns
C11_RejectedCounted ==
    Scored =>
        /\ validation_stats.total = Len(unique_matches)
        /\ validation_stats.real = Len(run_result)
        /\ validation_stats.real = Cardinality(ScoredIn(4, 4))
        /\ validation_stats.suspicious = Cardinality(ScoredIn(2, 3))
        /\ validation_stats.invalid = Cardinality(ScoredIn(0, 1))
        /\ validation_stats.real + validation_stats.suspicious
               + validation_stats.invalid = validation_stats.total
        /\ \A i \in DOMAIN unique_matches :
               quality_scores[i] < 4 => Raw(unique_matches[i]) \notin Accepted

\* an accepted record next to an invalid one: one real, one invalid, and
\* only the accepted record comes back
C11_Witness ==
    /\ Scored
    /\ Len(unique_matches) = 2
    /\ quality_scores[1] = 4
    /\ quality_scores[2] < 2
    /\ validation_stats = [total |-> 2, real |-> 1, suspicious |-> 0,
                           invalid |-> 1]
    /\ Len(run_result) = 1

\* the results of the sources one after the other, in the order of the list
RECURSIVE Joined(_)
Joined(n) == IF n = 0 THEN <<>> ELSE Joined(n - 1) \o results[Sources[n]]

\* C12: the combined list stays empty while the sources are being fetched;
\* once merging has started every source task has settled (returned, failed
\* or timed out), and the list that is deduplicated holds every result that
\* arrived, no record of it left out
C12_JoinBeforeMerge ==
    /\ pc = "Fetching" => all_matches = <<>>
    /\ pc \in {"Merging", "Validating", "Done", "Served"} =>
          \A s \in SourceSet : Settled(s)
    /\ pc = "Merging" => all_matches = Joined(Len(Sources))

\* merging starts at the deadline: one source has timed out, another has
\* returned a record, and the record is in the combined list
C12_Witness ==
    /\ pc = "Merging"
    /\ \E s \in SourceSet : call[s] = "timeout" /\ now = deadline[s]
    /\ \E s \in SourceSet : call[s] = "completed" /\ Len(results[s]) = 1
    /\ Len(all_matches) >= 1

\* the stage changes of one run, followed by the read of its result and the
\* start of the next run
StageOrder ==
    {<<"Idle", "Fetching">>, <<"Fetching", "Merging">>,
     <<"Merging", "Validating">>, <<"Validating", "Done">>,
     <<"Done", "Served">>, <<"Served", "Idle">>}

\* C13: a run goes through Idle, Fetching, Merging, Validating, Done in that
\* order, no stage skipped, repeated or re-entered
C13_StagesInOrder == [][pc' # pc => <<pc, pc'>> \in StageOrder]_vars

RECURSIVE CountSum(_)
CountSum(n) == IF n = 0 THEN 0 ELSE CountSum(n - 1) + source_counts[Sources[n]]

NothingFound == \A s \in SourceSet : results[s] = <<>>

\* C14: the per-source counts of a run have one entry for every registered
\* source, the number of records the source contributed, 0 for a source that
\* failed, timed out or returned nothing; and a run in which no source
\* returns a record ends normally with nothing accepted and nothing rejected
C14_EmptyRunAndCounts ==
    /\ pc \in {"Merging", "Validating", "Done", "Served"} =>
          /\ DOMAIN source_counts = SourceSet
          /\ \A s \in SourceSet :
                /\ source_counts[s] =
                      Cardinality({i \in DOMAIN results[s] : TRUE})
                /\ (Failed(s) \/ results[s] = <<>>) => source_counts[s] = 0
          /\ pc = "Merging" => Len(all_matches) = CountSum(Len(Sources))
    /\ (pc \in {"Done", "Served"} /\ NothingFound) =>
          /\ agg_outcome = "returned"
          /\ val_outcome = "returned"
          /\ run_result = <<>>
          /\ validation_stats = [total |-> 0, real |-> 0, suspicious |-> 0,
                                 invalid |-> 0]

\* a finished run in which one source timed out, one returned an empty list
\* and none returned a record: all four counts are 0 and the result is empty
C14_Witness ==
    /\ pc = "Done"
    /\ NothingFound
    /\ \E s \in SourceSet : call[s] = "timeout"
    /\ \E s \in SourceSet : call[s] = "completed"
    /\ source_counts = [s \in SourceSet |-> 0]
    /\ run_result = <<>>
    /\ val_outcome = "returned"

PlaceholderTokens ==
    { <<"t","e","s","t">>, <<"f","a","k","e">>, <<"d","e","m","o">>,
      <<"m","o","c","k">>, <<"s","a","m","p","l","e">>,
      <<"d","u","m","m","y">>, <<"e","x","a","m","p","l","e">> }

HasPlaceholder(name) ==
    IsStr(name) /\ \E token \in PlaceholderTokens : Contains(Lower(name), token)

\* the source ids the validator flags: containing simulate or fake
FlaggedByValidator(source) ==
    IsStr(source) /\
        \/ Contains(Lower(source), <<"s","i","m","u","l","a","t","e">>)
        \/ Contains(Lower(source), <<"f","a","k","e">>)

\* the source ids the endpoint flags: mock, fake and test
FlaggedByEndpoint(source) ==
    source \in { <<"m","o","c","k">>, <<"f","a","k","e">>, <<"t","e","s","t">> }

IsTestFCvsRealClub(match) ==
    /\ match.home_team = <<"T","e","s","t"," ","F","C">>
    /\ match.away_team = <<"R","e","a","l"," ","C","l","u","b">>

\* C10: no accepted record has a placeholder token, in any letter case, in
\* a team name, or a source id the validator flags, and none the endpoint
\* serves has a source id the endpoint flags; "Test FC" vs "Real Club"
\* scores below 4 and is not accepted though its other checks pass
C10_NoPlaceholderAccepted ==
    /\ \A j \in DOMAIN run_result :
           /\ ~HasPlaceholder(run_result[j].home_team)
           /\ ~HasPlaceholder(run_result[j].away_team)
           /\ ~FlaggedByValidator(run_result[j].source)
    /\ \A j \in DOMAIN real_matches :
           /\ ~HasPlaceholder(real_matches[j].home_team)
           /\ ~HasPlaceholder(real_matches[j].away_team)
           /\ ~FlaggedByValidator(real_matches[j].source)
           /\ ~FlaggedByEndpoint(real_matches[j].source)
    /\ Scored =>
           \A i \in DOMAIN unique_matches :
               IsTestFCvsRealClub(unique_matches[i]) =>
                   /\ quality_scores[i] < 4
                   /\ \A j \in DOMAIN run_result :
                          Raw(run_result[j]) # Raw(unique_matches[i])

\* "Test FC" vs "Real Club" with timestamp and source scores 3 and is left
\* out while the derby validated with it is served
C10_Witness ==
    /\ pc = "Served"
    /\ val_outcome = "returned"
    /\ Len(unique_matches) = 2
    /\ IsTestFCvsRealClub(unique_matches[1])
    /\ HasTimestamp(unique_matches[1])
    /\ HasSource(unique_matches[1])
    /\ quality_scores[1] = 3
    /\ Len(real_matches) = 1
    /\ Raw(real_matches[1]) = Raw(unique_matches[2])

\* C4: a call of a client's entry point ends by returning a list, never by
\* raising, whatever each request met (network error, timeout, body that
\* is not JSON or not of the expected shape, 403, 404, 429, 500); the list
\* has at most one entry for each request that got a body, so it is empty
\* when every request failed or the session could not be opened
C4_EntryNeverRaises ==
    cpc = "Done" =>
        /\ client_outcome = "returned"
        /\ Len(client_result) + failed_requests <= RequestsOf(client)
        /\ failed_requests >= RequestsOf(client) => client_result = <<>>
        /\ league = 0 => client_result = <<>>

\* ESPN: every one of the eight league requests ended without data and
\* the entry point returned the empty list
C4_Witness ==
    /\ cpc = "Done"
    /\ client = "ESPN"
    /\ failed_requests = EspnLeagues
    /\ client_outcome = "returned"
    /\ client_result = <<>>

Rank(s) == CHOOSE i \in 1..Len(Sources) : Sources[i] = s

\* the records of source s that carry the key
WithKey(s, key) ==
    {i \in DOMAIN results[s] :
        Keyable(results[s][i]) /\ UnifiedKey(results[s][i]) = key}

ContributingSources(match) == {match.source}

\* the sources whose records in the combined list carry the record's key
ReportedBy(match) ==
    {all_matches[i].source :
        i \in {j \in DOMAIN all_matches :
                  IdentityKey(all_matches[j]) = IdentityKey(match)}}

\* C20: a merged record names every source that reported the match: with
\* records of sources A and B under one identity key, the one output record
\* of the key names both A and B
C20_ListsEverySource ==
    (Aggregated /\ agg_outcome = "returned") =>
        \A k \in DOMAIN unique_matches :
            ContributingSources(unique_matches[k]) = ReportedBy(unique_matches[k])

\* what the merged record does name: one of the sources that reported it
C20_NamesOneReporter ==
    (Aggregated /\ agg_outcome = "returned") =>
        \A k \in DOMAIN unique_matches :
            /\ ContributingSources(unique_matches[k]) \subseteq ReportedBy(unique_matches[k])
            /\ Cardinality(ContributingSources(unique_matches[k])) = 1

\* the records of the list that carry the key and report the statistic
Reporting(list, key) ==
    {i \in DOMAIN list :
        IdentityKey(list[i]) = key /\ list[i].home_shots.t = "int"}

\* the statistic as the highest-priority record reporting it has it, the
\* list being in priority order
FromHighestReporting(list, key) ==
    IF Reporting(list, key) = {} THEN JAbsent
    ELSE list[SetMin(Reporting(list, key))].home_shots

\* C21: the statistic of a merged record is the value of the
\* highest-priority contributor that reports one: missing on the canonical
\* record it is filled from a lower-priority contributor, present there it
\* is kept
C21_StatisticFilled ==
    Merged =>
        \A k \in DOMAIN unique_matches :
            unique_matches[k].home_shots =
                FromHighestReporting(all_matches, IdentityKey(unique_matches[k]))

\* the half of it that holds: a statistic the canonical record has is
\* never replaced
C21_CanonicalValueKept ==
    Merged =>
        \A k \in DOMAIN unique_matches :
            LET same == {i \in DOMAIN all_matches :
                           IdentityKey(all_matches[i]) = IdentityKey(unique_matches[k])}
            IN  unique_matches[k].home_shots = all_matches[SetMin(same)].home_shots

\* the name is a string of more than 2 characters
LongerThanTwo(name) == IsStr(name) /\ Len(name) > 2

\* C22: the team-name check passes only when both names are non-empty and
\* longer than 2 characters, so a record with a name of 1 or 2 characters
\* does not reach the full score and is not accepted
C22_ShortNameRejected ==
    Scored =>
        /\ \A i \in DOMAIN unique_matches :
               quality_scores[i] = AcceptThreshold =>
                   /\ LongerThanTwo(unique_matches[i].home_team)
                   /\ LongerThanTwo(unique_matches[i].away_team)
        /\ \A j \in DOMAIN run_result :
               /\ LongerThanTwo(run_result[j].home_team)
               /\ LongerThanTwo(run_result[j].away_team)

\* what the check does require of an accepted record: two non-empty names
C22_EmptyNameRejected ==
    Scored =>
        \A j \in DOMAIN run_result :
            /\ IsStr(run_result[j].home_team) /\ run_result[j].home_team # <<>>
            /\ IsStr(run_result[j].away_team) /\ run_result[j].away_team # <<>>

\* a source has returned a record whose start_time is there but null
NullDateFrom(s) ==
    \E i \in DOMAIN results[s] : results[s][i].start_time = Null

\* C25: a raw record whose start_time is present but null makes
\* _remove_duplicates raise; the aggregate call fails and the entry point
\* returns an empty list, so the matches of every other source are gone
\* from that run
C25_NullDateEmptiesRun ==
    (pc \in {"Done", "Served"} /\ \E s \in SourceSet : NullDateFrom(s)) =>
        /\ agg_outcome = "raised"
        /\ val_outcome = "none"
        /\ run_result = <<>>

\* ESPN has returned the derby with a null date, Football-Data the derby
\* with its date and nothing a validator would reject: the run is empty
C25_Witness ==
    /\ pc = "Done"
    /\ NullDateFrom("ESPN")
    /\ results["Football-Data"] =
           <<Match(flamengo, palmeiras, May01At21, 1, 1, May01At21,
                   football_data_real)>>
    /\ run_result = <<>>

-----------------------------------------------------------------------------
(* Claims about the retry loop of the source clients *)

\* the attempt did not end the request: another attempt follows it
Retried == last_attempt.made = "pending"

\* what holds of _make_request's loop whatever the responses: at most
\* max_retries requests are sent, each attempt is followed by the next one
\* or by the end of the request, the request never ends in an exception,
\* and the last attempt ends it with the body or with None
LoopBounded ==
    /\ cpc = "Fetching" => attempt < max_retries
    /\ last_attempt.n < max_retries
    /\ Retried => cpc = "Fetching" /\ attempt = last_attempt.n + 1
    /\ last_attempt.made \in {"nothing", "pending", "data", "none"}
    /\ last_attempt.n = max_retries - 1 => ~Retried
    /\ last_attempt.made = "data" <=> last_attempt.resp \in Bodies

\* C15 as stated: one call of _make_request sends at most max_retries
\* requests, ends with the body or with None, never with an exception, and
\* after every failed attempt k that is followed by another attempt the
\* backoff of 2^k seconds has been waited
C15_BackoffAfterEveryFailure ==
    /\ LoopBounded
    /\ Retried => last_attempt.backoff = 2 ^ last_attempt.n

\* the attempt ended in the 429 branch, which sleeps and continues
WaitedOutRateLimit ==
    \/ last_attempt.resp \in {"429", "429_after"}
    \/ last_attempt.resp = "429_date" /\ client \in {"ESPN", "Football-Data"}

\* the attempt ended in Football-Data's 403 branch, the token still there
DroppedToken ==
    client = "Football-Data" /\ last_attempt.resp = "403" /\ last_attempt.token

\* C15 as the code has it: the loop is bounded as stated, and the backoff
\* of 2^k seconds is waited after failed attempt k unless the attempt ended
\* in the 429 branch or in Football-Data's dropping of its token, which go
\* to the next attempt without the backoff
C15_BackoffAfterFallThrough ==
    /\ LoopBounded
    /\ Retried =>
          IF WaitedOutRateLimit \/ DroppedToken
          THEN last_attempt.backoff = 0
          ELSE last_attempt.backoff = 2 ^ last_attempt.n

\* the second attempt of a request timed out and a third follows: 2 seconds
\* of backoff have been waited
C15_Witness ==
    /\ Retried
    /\ last_attempt.n = 1
    /\ last_attempt.resp = "timeout"
    /\ last_attempt.backoff = 2
    /\ attempt = 2


\* a 429 whose Retry-After header advertises a number of seconds has been
\* answered and another attempt follows
AdvertisedWait == Retried /\ last_attempt.resp = "429_after"

\* C16: after a 429 with an advertised retry-after value the client waits
\* that value before its next attempt, not a fixed or computed delay, in
\* every source client
C16_WaitsAdvertised ==
    AdvertisedWait =>
        /\ last_attempt.retry_after = last_attempt.advertised
        /\ last_attempt.backoff = 0

\* API-Football and Sofascore do wait the advertised value
C16_ReadersWaitAdvertised ==
    (AdvertisedWait /\ client \in {"API-Football", "Sofascore"}) =>
        /\ last_attempt.retry_after = last_attempt.advertised
        /\ last_attempt.backoff = 0

\* a 401 or a 403 has been answered
Permanent == last_attempt.resp \in {"401", "403"}

\* C17: a 401 or 403 response ends the request at once, with nothing for
\* it: no further attempt is sent, in every source client
C17_PermanentEndsRequest ==
    Permanent => last_attempt.made = "none"

\* the 403 branches that do end the request: ESPN's, API-Football's, and
\* Football-Data's once the token is gone
C17_ForbiddenBranchEnds ==
    (/\ last_attempt.resp = "403"
     /\ \/ client \in {"ESPN", "API-Football"}
        \/ client = "Football-Data" /\ ~last_attempt.token) =>
        last_attempt.made = "none"


-----------------------------------------------------------------------------
(* Claims about the parsers *)

\* the payload has no score where the parser reads it
NoScore(v) == v \in {JAbsent, JNull}

\* the provider reported 0, as a number or as the string "0"
ReportedZero(v) == v \in {JInt(0), JStr(<<"0">>)}

\* C18: a record whose payload has no score carries a null score, never 0,
\* and a record's score is 0 only when the provider reported 0, in the live
\* and the today parsers of every client
C18_MissingScoreIsNull ==
    ppc = "Parsed" =>
        \A j \in DOMAIN parsed :
            LET event == events[parsed[j].id]
            IN  /\ NoScore(event.home) => parsed[j].home_score = JNull
                /\ NoScore(event.away) => parsed[j].away_score = JNull
                /\ parsed[j].home_score = JInt(0) => ReportedZero(event.home)
                /\ parsed[j].away_score = JInt(0) => ReportedZero(event.away)

\* the today parsers of API-Football and Football-Data do keep a missing
\* score null
C18_TodayReadersKeepNull ==
    (ppc = "Parsed" /\ parser \in {"api_football_today", "football_data_today"}) =>
        \A j \in DOMAIN parsed :
            LET event == events[parsed[j].id]
            IN  /\ NoScore(event.home) => parsed[j].home_score = JNull
                /\ parsed[j].home_score = JInt(0) => ReportedZero(event.home)

\* C19: an event with valid teams and id whose score cannot be parsed is
\* still returned, the score at a safe default: no event of the payload is
\* missing from the matches
C19_MalformedFieldKeepsMatch ==
    ppc = "Parsed" =>
        /\ Len(parsed) = Len(events)
        /\ \A j \in DOMAIN parsed :
               /\ parsed[j].id = j
               /\ parsed[j].home_score.t \in {"int", "null"}
               /\ parsed[j].away_score.t \in {"int", "null"}

\* the parsers that convert nothing drop nothing
C19_ReadersDropNothing ==
    (ppc = "Parsed" /\ parser \notin {"espn_live", "espn_today", "live_scores_espn"}) =>
        Len(parsed) = Len(events)


-----------------------------------------------------------------------------
(* Claims about the timing of a client's requests *)

\* a request has been sent that is not the first of the call
Followed == last_attempt.made # "nothing" /\ ~last_attempt.first

C23_RetriesSeparated ==
    (Followed /\ (last_attempt.n > 0 \/ client \in {"API-Football", "Sofascore"})) =>
        last_attempt.gap >= rate_limit_delay(client)


\* the request sent last is a retry: attempt k+1 after attempt k
IsRetry == last_attempt.made # "nothing" /\ last_attempt.n > 0

FootballDataFetched == fpc = "Done" /\ fetcher = "Football-Data"

\* the fetch took more than the aggregator gives a source
Cancelled == fetch_elapsed > TIMEOUT

-----------------------------------------------------------------------------
(* Claims about the soccer task of get_multi_sport_live_real *)

\* a source's call was still running when the soccer task ended
OutOfTime(s) == call[s] \in {"timeout", "cancelled"}

\* a source had answered with matches
Prompt(s) == call[s] = "completed" /\ Len(results[s]) > 0

\* C27: the deadline around the soccer aggregate starts no later than the
\* deadlines of the sources it waits for; no source's own deadline is ever
\* the one that expires; when a source is still running at its full
\* deadline the aggregate has been cancelled, the soccer task ended by
\* timeout and the soccer list is empty, whatever the other sources returned
C27_OuterDeadlineFirst ==
    /\ (mpc = "Waiting" /\ pc = "Fetching") =>
           \A s \in SourceSet : outer_deadline <= deadline[s]
    /\ mpc # "Idle" => \A s \in SourceSet : call[s] # "timeout"
    /\ (mpc = "Done" /\ \E s \in SourceSet : OutOfTime(s)) =>
           /\ pc = "Cancelled"
           /\ soccer_call = "timeout"
           /\ soccer = <<>>
           /\ now = outer_deadline
    /\ (mpc = "Done" /\ soccer_call = "completed") =>
           /\ \A s \in SourceSet : Settled(s)
           /\ soccer = unique_matches

\* C27 happens: one source answered with a match, another was still running
\* when the outer deadline expired, and the soccer list is empty
C27_Witness ==
    /\ mpc = "Done"
    /\ soccer = <<>>
    /\ \E s \in SourceSet : Prompt(s)
    /\ \E s \in SourceSet : call[s] = "cancelled"


-----------------------------------------------------------------------------
(* Claims about the live-score update runs *)

\* C28: after any interleaving of update runs the table holds at most one
\* row per external_id, and a run's updated_count is the number of its
\* writes that succeeded and at most the number of matches it fetched
C28_OneRowPerExternalId ==
    /\ \A id \in Ids : rows[id] <= 1
    /\ \A r \in Runs :
           /\ updated_count[r] = written[r]
           /\ updated_count[r] <= Len(fetched[r])

\* the counting half of C28 on its own
C28_CountsSuccessfulWrites ==
    \A r \in Runs :
        /\ updated_count[r] = written[r]
        /\ updated_count[r] <= Len(fetched[r])

\* an external_id never has more rows than there are runs: a run inserts
\* only after a select that found no row
C28_RowsBoundedByRuns ==
    \A id \in Ids : rows[id] <= Cardinality(Runs)


-----------------------------------------------------------------------------
(* Claims about the loop of LiveScoresScheduler *)

InLoop == spc \in {"Test", "Updating", "Sleeping"}

\* C29: the loop ends only when running is false, whatever failed inside an
\* update; at most one update of the scheduler is in progress; once stop()
\* has been called no new update starts
C29_StopEndsLoop ==
    /\ spc = "Returned" => (stop_called /\ ~running)
    /\ in_flight <= 1
    /\ (spc = "Updating") = (in_flight = 1)
    /\ ~begun_after_stop

\* what holds of C29 whenever stop() is called: a failure never ends the
\* loop and updates never overlap
C29_FailuresKeepLooping ==
    /\ spc = "Returned" => (stop_called /\ ~running)
    /\ in_flight <= 1
    /\ (spc = "Updating") = (in_flight = 1)

\* a stop() that finds running true is followed by no new update
C29_StopInLoopStartsNothing ==
    [][(InLoop /\ ~running /\ spc' = "Updating") => spc = "Updating"]_vars

\* with running false the loop returns after the update and the sleep in
\* progress
C29_StopInLoopTerminates ==
    (InLoop /\ ~running) ~> (spc = "Returned")


-----------------------------------------------------------------------------
(* Claims about SchedulerManager *)

Terminal == {"completed", "skipped", "failed"}

C30_WitnessSkippedAndStopped ==
    /\ jpc = "Returned" /\ job_status = "skipped" /\ count_read = "failed"
    /\ last_call.op = "stop" /\ ~last_call.found_running

\* a scrape that failed leaves the job 'completed': 'failed' is never set
C30_FailedScrapeCompletes ==
    /\ job_status # "failed"
    /\ scrape = "returned_empty" => job_status \in {"completed", "running"}

====
